---- MODULE Spec2Model ----
(***************************************************************************)
(* State-machine model of the legacy PDB reader/writer of pdb2cif:         *)
(* Entry.parse_file / Entry.parse_line (the record-name dispatcher), the   *)
(* record codecs it calls and Entry.__str__ (the serializer).              *)
(*                                                                         *)
(* A physical line is modelled by its fixed column slices.  Each slice     *)
(* holds raw text drawn from a small vocabulary; str.strip, int(), float() *)
(* and the format specifications are tables over that vocabulary.          *)
(* Lines are compared modulo trailing blanks (the fixed-width padding of   *)
(* the formatters is not represented).                                     *)
(***************************************************************************)
EXTENDS Integers, Sequences, FiniteSets, TLC

\* ------------------------------------------------------------------------
\* Bounds of the model
\* ------------------------------------------------------------------------
\* Longest document of the title-section specification.
MaxLines == 3

\* The longest atom name handed to atom_format.
MaxNameLen == 5

\* ------------------------------------------------------------------------
\* Python values
\* ------------------------------------------------------------------------
\* None and an object reference are modelled as a sequence of length 0 / 1.
None == << >>

Some(r) == << r >>

\* Variant: no object is truthy.
Truthy_never(x) == FALSE

\* Truth value of an object reference: the record classes define neither
\* __bool__ nor __len__, so every instance is truthy and only None is falsy.
Truthy(x) == x # None

\* No exception.
NoExc == ""

\* Message of the ValueError raised by int(), float() and strptime().
ConvError == "ValueError: invalid literal"

\* str.strip() on the vocabulary of column slices.
Strip(s) ==
    CASE s = "   " -> ""
      [] s = "  0" -> "0"
      [] s = "  1" -> "1"
      [] s = "  2" -> "2"
      [] s = "  3" -> "3"
      [] s = "  4" -> "4"
      [] s = " 2 " -> "2"
      [] s = " 3 " -> "3"
      [] s = " 4 " -> "4"
      [] s = "  X" -> "X"
      [] s = "  " -> ""
      [] s = " C" -> "C"
      [] s = " N" -> "N"
      [] s = " H" -> "H"
      [] s = " CA " -> "CA"
      [] s = "CA  " -> "CA"
      [] s = " N  " -> "N"
      [] OTHER -> s

\* TRUE iff int(s.strip()) returns; it raises ValueError on blank or
\* non-numeric text.
IntOk(s) == Strip(s) \in {"0", "1", "2", "3", "4"}

\* int(s.strip()) where it returns.
PyInt(s) ==
    (CHOOSE p \in {<< "0", 0 >>, << "1", 1 >>, << "2", 2 >>, << "3", 3 >>,
                   << "4", 4 >>} : p[1] = Strip(s))[2]

\* TRUE iff float(s.strip()) returns.
FloatOk(s) == Strip(s) \in {"0", "1", "2", "3", "4"}

\* float(s.strip()) where it returns (the vocabulary holds whole numbers).
PyFloat(s) == PyInt(s)

\* f"{n:>3}": an integer right-justified in three columns.
FmtR3(n) ==
    CASE n = 0 -> "  0"
      [] n = 1 -> "  1"
      [] n = 2 -> "  2"
      [] n = 3 -> "  3"
      [] n = 4 -> "  4"
      [] OTHER -> "  *"

\* " " + f"{n:>2}": a two-column integer occupying columns 9-10 of the
\* slice 8-10.
FmtR2(n) == FmtR3(n)

\* f"{n:>2}" + " ": a two-column integer written one column early
\* (columns 8-9), followed by the separating blank.
FmtR2Early(n) ==
    CASE n = 0 -> " 0 "
      [] n = 1 -> " 1 "
      [] n = 2 -> " 2 "
      [] n = 3 -> " 3 "
      [] n = 4 -> " 4 "
      [] OTHER -> " * "

\* Blank columns 8-10.
Blank == "   "

\* ------------------------------------------------------------------------
\* Lines
\* ------------------------------------------------------------------------
\* A line is the record of its column slices.  name: columns 1-6; cont: the
\* continuation field (columns 8-10 of the title records); num: a numeric
\* column the codec converts unconditionally; opt: a numeric column the
\* codec converts inside try/except; date: a DD-MMM-YY column; text: the
\* free-text payload, single ID code or atom-name column; ids: repeated
\* ID-code or token columns, left to right; chain, seq: chain identifier and
\* residue sequence number columns; elem: element symbol column; text2,
\* chain2, seq2: the second atom of a LINK line.
BlankDate == "         "

BlankLine(name) ==
    [name |-> name, cont |-> "   ", num |-> "   ", opt |-> "   ",
     date |-> BlankDate, text |-> "", ids |-> << >>,
     chain |-> "", seq |-> "   ", elem |-> "  ",
     text2 |-> "", chain2 |-> "", seq2 |-> "   "]

\* A line of a continuation-bearing text record.
Line(name, cont, text) ==
    [BlankLine(name) EXCEPT !.cont = cont, !.text = text]

\* The empty string as an output line.
EmptyLine == BlankLine("")

\* line[0:6].strip()
RecordName(line) == line.name

\* ------------------------------------------------------------------------
\* general.BaseRecord
\* ------------------------------------------------------------------------
BaseRecord_parse_line(r, line) ==
    [r EXCEPT !.original_text = Append(@, line)]

\* enumerate(list): the 1-based positions of a sequence.
Positions(s) == 1..Len(s)

\* ------------------------------------------------------------------------
\* annotation.py: continuation-bearing text records
\* ------------------------------------------------------------------------
Author_init(id) == [inst |-> id, original_text |-> << >>, author_list |-> << >>]

Author_parse_line(r, line) ==
    [rec |-> [BaseRecord_parse_line(r, line) EXCEPT
                 !.author_list = Append(@, line.text)],
     exc |-> NoExc]

\* Variant: every line keeps the continuation field it was parsed with.
Author_str_echo(r) ==
    [i \in Positions(r.author_list) |->
        Line("AUTHOR", r.original_text[i].cont, r.author_list[i])]

Author_str(r) ==
    [i \in Positions(r.author_list) |->
        IF i > 1
        THEN Line("AUTHOR", FmtR2(i), r.author_list[i])
        ELSE Line("AUTHOR", Blank, r.author_list[i])]

Caveat_init(id) ==
    [inst |-> id, original_text |-> << >>, id_code |-> "", comment |-> << >>]

Caveat_parse_line(r, line) ==
    [rec |-> [BaseRecord_parse_line(r, line) EXCEPT
                 !.id_code = IF line.ids = << >> THEN "" ELSE line.ids[1],
                 !.comment = Append(@, line.text)],
     exc |-> NoExc]

\* Five blanks follow the continuation number, so the comment starts in
\* column 16 instead of column 20.
Early4(text) == IF text = "" THEN "" ELSE "<col 16>" \o text

\* The first line is built from a plain (not f-) string, and no line writes
\* the ID code.
Caveat_str(r) ==
    [i \in Positions(r.comment) |->
        IF i > 1
        THEN Line("CAVEAT", FmtR2(i), Early4(r.comment[i]))
        ELSE Line("CAVEAT", Blank, "{line:51}")]

Compound_init(id) == [inst |-> id, original_text |-> << >>, compound |-> << >>]

Compound_parse_line(r, line) ==
    [rec |-> [BaseRecord_parse_line(r, line) EXCEPT
                 !.compound = Append(@, line.text)],
     exc |-> NoExc]

Compound_str(r) ==
    [i \in Positions(r.compound) |->
        IF i > 1
        THEN Line("COMPND", FmtR3(i), r.compound[i])
        ELSE Line("COMPND", Blank, r.compound[i])]

ExperimentalData_init(id) ==
    [inst |-> id, original_text |-> << >>, technique |-> << >>]

ExperimentalData_parse_line(r, line) ==
    [rec |-> [BaseRecord_parse_line(r, line) EXCEPT
                 !.technique = Append(@, line.text)],
     exc |-> NoExc]

ExperimentalData_str(r) ==
    [i \in Positions(r.technique) |->
        IF i > 1
        THEN Line("EXPDTA", FmtR2Early(i), r.technique[i])
        ELSE Line("EXPDTA", Blank, r.technique[i])]

Keywords_init(id) == [inst |-> id, original_text |-> << >>, keywords |-> << >>]

Keywords_parse_line(r, line) ==
    [rec |-> [BaseRecord_parse_line(r, line) EXCEPT
                 !.keywords = Append(@, line.text)],
     exc |-> NoExc]

Keywords_str(r) ==
    [i \in Positions(r.keywords) |->
        IF i > 1
        THEN Line("KEYWDS", FmtR2(i), r.keywords[i])
        ELSE Line("KEYWDS", Blank, r.keywords[i])]

ModelType_init(id) == [inst |-> id, original_text |-> << >>, comment |-> << >>]

ModelType_parse_line(r, line) ==
    [rec |-> [BaseRecord_parse_line(r, line) EXCEPT
                 !.comment = Append(@, line.text)],
     exc |-> NoExc]

ModelType_str(r) ==
    [i \in Positions(r.comment) |->
        IF i > 1
        THEN Line("MDLTYP", FmtR2(i), r.comment[i])
        ELSE Line("MDLTYP", Blank, r.comment[i])]

Source_init(id) ==
    [inst |-> id, original_text |-> << >>, continuation |-> "",
     source |-> << >>]

Source_parse_line(r, line) ==
    [rec |-> [BaseRecord_parse_line(r, line) EXCEPT
                 !.continuation = Strip(line.cont),
                 !.source = Append(@, line.text)],
     exc |-> NoExc]

Source_str(r) ==
    [i \in Positions(r.source) |->
        IF i > 1
        THEN Line("SOURCE", FmtR3(i), r.source[i])
        ELSE Line("SOURCE", Blank, r.source[i])]

Title_init(id) == [inst |-> id, original_text |-> << >>, title |-> << >>]

Title_parse_line(r, line) ==
    [rec |-> [BaseRecord_parse_line(r, line) EXCEPT
                 !.title = Append(@, line.text)],
     exc |-> NoExc]

Title_str(r) ==
    [i \in Positions(r.title) |->
        IF i > 1
        THEN Line("TITLE", FmtR2(i), r.title[i])
        ELSE Line("TITLE", Blank, r.title[i])]

\* ------------------------------------------------------------------------
\* general.py: dates and chunking
\* ------------------------------------------------------------------------
\* datetime.strptime(date_string, "%d-%b-%y") matches the regular expression
\*   (?P<d>3[0-1]|[1-2]\d|0[1-9]|[1-9]| [1-9])-(?P<b>jan|...|dec)-(?P<y>\d\d)
\* ignoring letter case, and raises ValueError when the string does not
\* match, when text remains after the match, or when the month has no
\* such day.  Strings are sequences of characters.
Digits == << "0", "1", "2", "3", "4", "5", "6", "7", "8", "9" >>

IsDigit(c) == \E i \in 1..10 : Digits[i] = c

\* int(c) for a digit c
DigitVal(c) == (CHOOSE i \in 1..10 : Digits[i] = c) - 1

UpperCase ==
    << "A", "B", "C", "D", "E", "F", "G", "H", "I", "J", "K", "L", "M",
       "N", "O", "P", "Q", "R", "S", "T", "U", "V", "W", "X", "Y", "Z" >>

LowerCase ==
    << "a", "b", "c", "d", "e", "f", "g", "h", "i", "j", "k", "l", "m",
       "n", "o", "p", "q", "r", "s", "t", "u", "v", "w", "x", "y", "z" >>

\* c.lower()
Lower(c) ==
    IF \E i \in 1..26 : UpperCase[i] = c
    THEN LowerCase[CHOOSE i \in 1..26 : UpperCase[i] = c]
    ELSE c

\* calendar.month_abbr of the C locale, lower-cased.
MonthAbbr ==
    << << "j", "a", "n" >>, << "f", "e", "b" >>, << "m", "a", "r" >>,
       << "a", "p", "r" >>, << "m", "a", "y" >>, << "j", "u", "n" >>,
       << "j", "u", "l" >>, << "a", "u", "g" >>, << "s", "e", "p" >>,
       << "o", "c", "t" >>, << "n", "o", "v" >>, << "d", "e", "c" >> >>

\* %d: 3[0-1] | [1-2]\d | 0[1-9] | [1-9] | " "[1-9]
DayMatch(tok) ==
    \/ Len(tok) = 2 /\ tok[1] = "3" /\ tok[2] \in {"0", "1"}
    \/ Len(tok) = 2 /\ tok[1] \in {"1", "2"} /\ IsDigit(tok[2])
    \/ Len(tok) = 2 /\ tok[1] \in {"0", " "} /\ IsDigit(tok[2])
       /\ tok[2] # "0"
    \/ Len(tok) = 1 /\ IsDigit(tok[1]) /\ tok[1] # "0"

\* %b, under re.IGNORECASE
MonthMatch(tok) ==
    \E m \in 1..12 : [i \in 1..Len(tok) |-> Lower(tok[i])] = MonthAbbr[m]

\* %y: \d\d
YearMatch(tok) ==
    Len(tok) = 2 /\ \A i \in 1..Len(tok) : IsDigit(tok[i])

\* Variant: text after the two digits of the year is ignored.
DateSplits_prefix(cs) ==
    { p \in (1..Len(cs)) \X (1..Len(cs)) :
        /\ p[1] < p[2]
        /\ cs[p[1]] = "-" /\ cs[p[2]] = "-"
        /\ DayMatch(SubSeq(cs, 1, p[1] - 1))
        /\ MonthMatch(SubSeq(cs, p[1] + 1, p[2] - 1))
        /\ p[2] + 2 <= Len(cs)
        /\ YearMatch(SubSeq(cs, p[2] + 1, p[2] + 2)) }

\* The positions of the two hyphens at which the string matches and no
\* text remains after the year.
DateSplits(cs) ==
    { p \in (1..Len(cs)) \X (1..Len(cs)) :
        /\ p[1] < p[2]
        /\ cs[p[1]] = "-" /\ cs[p[2]] = "-"
        /\ DayMatch(SubSeq(cs, 1, p[1] - 1))
        /\ MonthMatch(SubSeq(cs, p[1] + 1, p[2] - 1))
        /\ YearMatch(SubSeq(cs, p[2] + 1, Len(cs))) }

\* int() of a matched token of one or two characters; the blank of " 8"
\* counts as no digit.
TokenVal(tok) ==
    IF Len(tok) = 1 THEN DigitVal(tok[1])
    ELSE (IF tok[1] = " " THEN 0 ELSE 10 * DigitVal(tok[1]))
         + DigitVal(tok[2])

\* %y: 69-99 are years of the 1900s, 00-68 of the 2000s.
FullYear(y) == IF y <= 68 THEN 2000 + y ELSE 1900 + y

DaysIn(month, year) ==
    IF month = 2
    THEN IF year % 4 = 0 /\ (year % 100 # 0 \/ year % 400 = 0)
         THEN 29 ELSE 28
    ELSE IF month \in {4, 6, 9, 11} THEN 30 ELSE 31

DateError == "ValueError: time data does not match format '%d-%b-%y'"

\* date_parse(date_string): the date, or the ValueError of strptime.
date_parse(cs) ==
    IF DateSplits(cs) = {} THEN [date |-> None, exc |-> DateError]
    ELSE LET p == CHOOSE q \in DateSplits(cs) : TRUE
             month == CHOOSE m \in 1..12 :
                          [i \in 1..(p[2] - p[1] - 1) |->
                              Lower(cs[p[1] + i])] = MonthAbbr[m]
             Dated(day, year) ==
                 IF day <= DaysIn(month, year)
                 THEN [date |-> Some([day |-> day, month |-> month,
                                      year |-> year]),
                       exc |-> NoExc]
                 ELSE [date |-> None, exc |-> DateError]
         IN  Dated(TokenVal(SubSeq(cs, 1, p[1] - 1)),
                   FullYear(TokenVal(SubSeq(cs, p[2] + 1, p[2] + 2))))

\* The characters of the date column of a line after strip().
DateChars(s) ==
    CASE s = "08-MAR-07" ->
           << "0", "8", "-", "M", "A", "R", "-", "0", "7" >>
      [] s = "28-MAR-07" ->
           << "2", "8", "-", "M", "A", "R", "-", "0", "7" >>
      [] s = "08-XXX-07" ->
           << "0", "8", "-", "X", "X", "X", "-", "0", "7" >>
      [] s = "         " -> << >>

\* TRUE iff date_parse(line[..].strip()) returns.
DateOk(s) == date_parse(DateChars(s)).exc = NoExc

\* date.strftime("%d-%b-%y").upper(), or nine blanks for None.
date_format(date) ==
    IF date = None THEN BlankDate
    ELSE CASE date[1].day = 8 -> "08-MAR-07"
           [] date[1].day = 28 -> "28-MAR-07"

\* The fill value zip_longest pads the last chunk with (Python None).
FillValue == "<None>"

\* grouper(iterable, block_size): chunks of block_size, the last one padded.
grouper(s, block_size) ==
    [k \in 1..((Len(s) + block_size - 1) \div block_size) |->
        [j \in 1..block_size |->
            IF (k - 1) * block_size + j <= Len(s)
            THEN s[(k - 1) * block_size + j]
            ELSE FillValue]]

\* Variant: the padded slots are formatted like the others.
NotNone_all(chunk) == chunk

\* The elements of a chunk that pass "is not None".
NotNone(chunk) == SelectSeq(chunk, LAMBDA c : c # FillValue)

\* The elements of a sequence of column slices that are not blank.
NonBlank(s) == SelectSeq(s, LAMBDA c : c # "")

\* ------------------------------------------------------------------------
\* OrderedDict: a sequence of key/value pairs in insertion order
\* ------------------------------------------------------------------------
DictHas(d, k) == \E i \in 1..Len(d) : d[i].key = k

DictGet(d, k) == d[CHOOSE i \in 1..Len(d) : d[i].key = k].val

DictPut(d, k, v) ==
    IF DictHas(d, k)
    THEN [i \in 1..Len(d) |-> IF d[i].key = k THEN [key |-> k, val |-> v]
                                              ELSE d[i]]
    ELSE Append(d, [key |-> k, val |-> v])

\* "\n".join over a sequence of multi-line strings.
RECURSIVE JoinLines(_)
JoinLines(ss) ==
    IF ss = << >> THEN << >> ELSE Head(ss) \o JoinLines(Tail(ss))

\* ------------------------------------------------------------------------
\* annotation.py: the other title-section records
\* ------------------------------------------------------------------------
Header_init(id) ==
    [inst |-> id, original_text |-> << >>, classification |-> None,
     dep_date |-> None, id_code |-> None]

Header_parse_line(r, line) ==
    LET r1 == [BaseRecord_parse_line(r, line) EXCEPT
                  !.classification = Some(line.text)]
    IN  IF DateOk(line.date)
        THEN [rec |-> [r1 EXCEPT !.dep_date =
                                     date_parse(DateChars(line.date)).date,
                                 !.id_code = Some(line.ids[1])],
              exc |-> NoExc]
        ELSE [rec |-> r1, exc |-> ConvError]

Header_str(r) ==
    << [BlankLine("HEADER") EXCEPT !.text = r.classification[1],
                                   !.date = date_format(r.dep_date),
                                   !.ids = << r.id_code[1] >>] >>

Journal_init(id) == [inst |-> id, original_text |-> << >>, text |-> None]

Journal_parse_line(r, line) ==
    [rec |-> [BaseRecord_parse_line(r, line) EXCEPT !.text = Some(line.text)],
     exc |-> NoExc]

Journal_str(r) == << [BlankLine("JRNL") EXCEPT !.text = r.text[1]] >>

Remark_init(id) ==
    [inst |-> id, original_text |-> << >>, remark_num |-> None,
     remark_text |-> None]

Remark_parse_line(r, line) ==
    LET r1 == BaseRecord_parse_line(r, line)
    IN  IF IntOk(line.num)
        THEN [rec |-> [r1 EXCEPT !.remark_num = Some(PyInt(line.num)),
                                 !.remark_text = Some(line.text)],
              exc |-> NoExc]
        ELSE [rec |-> r1, exc |-> ConvError]

Remark_str(r) ==
    << [BlankLine("REMARK") EXCEPT !.num = FmtR3(r.remark_num[1]),
                                   !.text = r.remark_text[1]] >>

NumModels_init(id) ==
    [inst |-> id, original_text |-> << >>, model_number |-> None]

NumModels_parse_line(r, line) ==
    LET r1 == BaseRecord_parse_line(r, line)
    IN  IF IntOk(line.num)
        THEN [rec |-> [r1 EXCEPT !.model_number = Some(PyInt(line.num))],
              exc |-> NoExc]
        ELSE [rec |-> r1, exc |-> ConvError]

NumModels_str(r) ==
    << [BlankLine("NUMMDL") EXCEPT !.num = FmtR3(r.model_number[1])] >>

Obsolete_init(id) ==
    [inst |-> id, original_text |-> << >>, replace_date |-> None,
     id_code |-> None, replace_id_codes |-> << >>]

\* The ID-code list is rebuilt from each line: the first slot as it is, the
\* later slots when they are not blank.
Obsolete_parse_line(r, line) ==
    LET r1 == BaseRecord_parse_line(r, line)
    IN  IF DateOk(line.date)
        THEN [rec |-> [r1 EXCEPT
                         !.replace_date = date_parse(DateChars(line.date)).date,
                         !.id_code = Some(line.text),
                         !.replace_id_codes =
                             IF line.ids = << >> THEN << "" >>
                             ELSE << Head(line.ids) >>
                                  \o NonBlank(Tail(line.ids))],
              exc |-> NoExc]
        ELSE [rec |-> r1, exc |-> ConvError]

Obsolete_str(r) ==
    LET chunks == grouper(r.replace_id_codes, 8)
    IN  [k \in 1..Len(chunks) |->
            [BlankLine("OBSLTE") EXCEPT
                !.cont = IF k > 1 THEN FmtR2(k) ELSE Blank,
                !.date = date_format(r.replace_date),
                !.text = r.id_code[1],
                !.ids = NotNone(chunks[k])]]

\* One REVDAT modification.  modification_num and modification_type start
\* as the empty string; they are None here until an integer is stored.
Revision_init ==
    [original_text |-> << >>, modification_num |-> None,
     modification_date |-> None, modification_id |-> "",
     modification_type |-> None, records |-> << >>]

Revision_parse_line(r, line) ==
    LET r1 == BaseRecord_parse_line(r, line)
    IN  IF ~IntOk(line.num) THEN [rec |-> r1, exc |-> ConvError]
        ELSE
        LET r2 == [r1 EXCEPT
                     !.modification_num = Some(PyInt(line.num)),
                     !.modification_date =
                         IF DateOk(line.date) THEN date_parse(DateChars(line.date)).date
                         ELSE @,
                     !.modification_id =
                         IF line.text # "" THEN line.text ELSE @]
        IN  IF Strip(line.opt) # "" /\ ~IntOk(line.opt)
            THEN [rec |-> r2, exc |-> ConvError]
            ELSE [rec |-> [r2 EXCEPT
                             !.modification_type =
                                 IF Strip(line.opt) # ""
                                 THEN Some(PyInt(line.opt)) ELSE @,
                             !.records = @ \o NonBlank(line.ids)],
                  exc |-> NoExc]

Revision_str(r) ==
    LET first == [BlankLine("REVDAT") EXCEPT
                     !.num = FmtR3(r.modification_num[1]),
                     !.date = date_format(r.modification_date),
                     !.text = r.modification_id,
                     !.opt = IF r.modification_type = None THEN Blank
                             ELSE FmtR3(r.modification_type[1])]
        chunks == grouper(r.records, 4)
    IN  IF Len(r.records) = 0 THEN << first >>
        ELSE [k \in 1..Len(chunks) |->
                IF k > 1
                THEN [BlankLine("REVDAT") EXCEPT
                         !.num = FmtR3(r.modification_num[1]),
                         !.cont = FmtR2(k),
                         !.ids = NotNone(chunks[k])]
                ELSE [first EXCEPT !.ids = NotNone(chunks[k])]]

RevisionData_init(id) ==
    [inst |-> id, original_text |-> << >>, revisions |-> << >>]

\* Variant: every line is parsed into a new Revision.
GetRevision_fresh(revisions, mod_num) == Revision_init

\* self._revisions.get(mod_num, Revision()): a Revision() is constructed on
\* every call as the default argument and used when the key is new.
GetRevision(revisions, mod_num) ==
    IF DictHas(revisions, mod_num) THEN DictGet(revisions, mod_num)
    ELSE Revision_init

RevisionData_parse_line(r, line) ==
    LET r1 == BaseRecord_parse_line(r, line)
    IN  IF ~IntOk(line.num) THEN [rec |-> r1, exc |-> ConvError]
        ELSE
        LET mod_num == PyInt(line.num)
            known == DictHas(r1.revisions, mod_num)
            revision == GetRevision(r1.revisions, mod_num)
            res == Revision_parse_line(revision, line)
        IN  IF res.exc # NoExc
            THEN [rec |-> IF known
                          THEN [r1 EXCEPT !.revisions =
                                   DictPut(@, mod_num, res.rec)]
                          ELSE r1,
                  exc |-> res.exc]
            ELSE [rec |-> [r1 EXCEPT !.revisions =
                              DictPut(@, mod_num, res.rec)],
                  exc |-> NoExc]

\* Dictionary keys are distinct, so the "same modification" branch of the
\* loop never runs and the text is the revisions' texts in key order.
RevisionData_str(r) ==
    JoinLines([i \in 1..Len(r.revisions) |-> Revision_str(r.revisions[i].val)])

\* seq_num stands for the unconditionally converted columns 8-10 and
\* 24-27, num_res for columns 16-17, seq2 for the residue columns converted
\* inside try/except.
Site_init(id) ==
    [inst |-> id, original_text |-> << >>, seq_num |-> None,
     site_id |-> None, num_res |-> None, res_names |-> << >>,
     seq2 |-> None]

\* The four residue-name slots of a SITE line, blanks included.
Slots4(ids) == [j \in 1..4 |-> IF j <= Len(ids) THEN ids[j] ELSE ""]

\* num_res is int() of columns 16-17 of the line the record was built
\* from; nothing is counted.
Site_parse_line(r, line) ==
    LET r1 == BaseRecord_parse_line(r, line)
    IN  IF IntOk(line.num) /\ IntOk(line.seq)
        THEN [rec |-> [r1 EXCEPT
                         !.seq_num = Some(PyInt(line.num)),
                         !.site_id = Some(line.text),
                         !.num_res = Some(PyInt(line.seq)),
                         !.res_names = Slots4(line.ids),
                         !.seq2 = IF IntOk(line.opt)
                                  THEN Some(PyInt(line.opt)) ELSE @],
              exc |-> NoExc]
        ELSE [rec |-> r1, exc |-> ConvError]

Site_str(r) ==
    << [BlankLine("SITE") EXCEPT
           !.num = FmtR3(r.seq_num[1]),
           !.text = r.site_id[1],
           !.seq = FmtR3(r.num_res[1]),
           !.ids = NonBlank(r.res_names),
           !.opt = IF r.seq2 = None THEN Blank ELSE FmtR3(r.seq2[1])] >>

Split_init(id) == [inst |-> id, original_text |-> << >>, id_codes |-> << >>]

\* Split.parse_line does not call BaseRecord.parse_line.
Split_parse_line(r, line) ==
    [rec |-> [r EXCEPT !.id_codes = @ \o NonBlank(line.ids)], exc |-> NoExc]

\* Every line is written under the record name SITE, and each continuation
\* chunk begins with a line break of its own before the join adds another.
Split_str(r) ==
    LET chunks == grouper(r.id_codes, 14)
    IN  JoinLines([k \in 1..Len(chunks) |->
            IF k > 1
            THEN << EmptyLine,
                    [BlankLine("SITE") EXCEPT !.cont = FmtR2(k),
                                              !.ids = NotNone(chunks[k])] >>
            ELSE << [BlankLine("SITE") EXCEPT
                        !.ids = NotNone(chunks[k])] >>])

Supersedes_init(id) ==
    [inst |-> id, original_text |-> << >>, super_date |-> None,
     id_code |-> None, super_id_codes |-> << >>]

\* The eight ID-code slots of the line replace the list, blanks included.
Slots8(ids) == [j \in 1..8 |-> IF j <= Len(ids) THEN ids[j] ELSE ""]

Supersedes_parse_line(r, line) ==
    LET r1 == BaseRecord_parse_line(r, line)
    IN  IF DateOk(line.date)
        THEN [rec |-> [r1 EXCEPT
                         !.super_date = date_parse(DateChars(line.date)).date,
                         !.id_code = Some(line.text),
                         !.super_id_codes = Slots8(line.ids)],
              exc |-> NoExc]
        ELSE [rec |-> r1, exc |-> ConvError]

\* Trailing blank slots vanish with string.strip(); the list always holds
\* exactly eight slots, so there is one chunk.
Supersedes_str(r) ==
    LET chunks == grouper(r.super_id_codes, 8)
    IN  [k \in 1..Len(chunks) |->
            IF k > 1
            THEN [BlankLine("SPRSDE") EXCEPT !.cont = FmtR2(k),
                                             !.ids = NonBlank(chunks[k])]
            ELSE [BlankLine("SPRSDE") EXCEPT
                     !.date = date_format(r.super_date),
                     !.text = r.id_code[1],
                     !.ids = NonBlank(chunks[k])]]

\* ------------------------------------------------------------------------
\* Single-line records.  num stands for the columns the codec converts
\* unconditionally, opt for a column it converts inside try/except, text
\* for its string columns, kind for the class of the object (written as
\* the record name the class prints).  Column widths are not represented.
\* ------------------------------------------------------------------------
Simple_init(kind, id) ==
    [kind |-> kind, inst |-> id, original_text |-> << >>, num |-> None,
     opt |-> None, text |-> None]

\* A codec whose numeric columns are all converted unconditionally:
\* DatabaseReference, DatabaseReference1, DatabaseReference2, Heterogen,
\* DisulfideBond, CisPeptide.
Strict_parse_line(r, line) ==
    LET r1 == BaseRecord_parse_line(r, line)
    IN  IF IntOk(line.num)
        THEN [rec |-> [r1 EXCEPT !.num = Some(PyInt(line.num)),
                                 !.text = Some(line.text)],
              exc |-> NoExc]
        ELSE [rec |-> r1, exc |-> ConvError]

\* A codec that also converts a column inside try/except: a failed
\* conversion leaves the field at its initial value.  Helix, Sheet, UnitCell.
Tolerant_parse_line(r, line) ==
    LET res == Strict_parse_line(r, line)
    IN  IF res.exc # NoExc THEN res
        ELSE [res EXCEPT !.rec.opt = IF IntOk(line.opt)
                                     THEN Some(PyInt(line.opt)) ELSE @]

\* opt = None stands for the empty string where the class initialises the
\* column to "" (CRYST1 z, SHEET registration); the classes that
\* initialise it to None raise on formatting, see Simple_str_raises.
Simple_str(r) ==
    << [BlankLine(r.kind) EXCEPT
           !.num = IF r.num = None THEN Blank ELSE FmtR3(r.num[1]),
           !.opt = IF r.opt = None THEN Blank ELSE FmtR3(r.opt[1]),
           !.text = r.text[1]] >>

\* f"{None:4}" raises TypeError: HELIX helix_class, SEQADV seq_num and
\* MTRIXn i_given start as None and stay None when the conversion fails.
Simple_str_raises(r) == r.opt = None

\* primary.py
\* SEQADV converts both of its numeric columns inside try/except.
SequenceDifferences_parse_line(r, line) ==
    [rec |-> [BaseRecord_parse_line(r, line) EXCEPT
                 !.text = Some(line.text),
                 !.opt = IF IntOk(line.opt) THEN Some(PyInt(line.opt)) ELSE @],
     exc |-> NoExc]

SequenceResidues_init(id) ==
    [inst |-> id, original_text |-> << >>, residues |-> << >>,
     num_residues |-> << >>]

\* All thirteen residue slots of the line are appended, blanks included.
Slots13(ids) == [j \in 1..13 |-> IF j <= Len(ids) THEN ids[j] ELSE ""]

SequenceResidues_parse_line(r, line) ==
    LET r1 == BaseRecord_parse_line(r, line)
        chain_id == line.chain
        r2 == IF DictHas(r1.residues, chain_id) THEN r1
              ELSE [r1 EXCEPT !.residues = DictPut(@, chain_id, << >>)]
    IN  IF IntOk(line.num)
        THEN [rec |-> [r2 EXCEPT
                         !.num_residues = DictPut(@, chain_id, PyInt(line.num)),
                         !.residues = DictPut(@, chain_id,
                             DictGet(r2.residues, chain_id)
                                 \o Slots13(line.ids))],
              exc |-> NoExc]
        ELSE [rec |-> r2, exc |-> ConvError]

SequenceResidues_str(r) ==
    JoinLines([c \in 1..Len(r.residues) |->
        LET chunks == grouper(r.residues[c].val, 13)
        IN  [k \in 1..Len(chunks) |->
                [BlankLine("SEQRES") EXCEPT
                    !.cont = FmtR3(k),
                    !.chain = r.residues[c].key,
                    !.num = FmtR3(DictGet(r.num_residues, r.residues[c].key)),
                    !.ids = NonBlank(chunks[k])]]])

\* heterogen.py
HeterogenName_init(id) ==
    [inst |-> id, original_text |-> << >>, heterogens |-> << >>]

HeterogenName_parse_line(r, line) ==
    LET r1 == BaseRecord_parse_line(r, line)
        hetatm_id == line.ids[1]
        strings == IF DictHas(r1.heterogens, hetatm_id)
                   THEN DictGet(r1.heterogens, hetatm_id) ELSE << >>
    IN  [rec |-> [r1 EXCEPT !.heterogens =
                     DictPut(@, hetatm_id, Append(strings, line.text))],
         exc |-> NoExc]

HeterogenName_str(r) ==
    JoinLines([h \in 1..Len(r.heterogens) |->
        [i \in Positions(r.heterogens[h].val) |->
            [BlankLine("HETNAM") EXCEPT
                !.cont = IF i > 1 THEN FmtR2(i) ELSE Blank,
                !.ids = << r.heterogens[h].key >>,
                !.text = r.heterogens[h].val[i]]]])

HeterogenSynonym_init(id) ==
    [inst |-> id, original_text |-> << >>, synonyms |-> << >>]

HeterogenSynonym_parse_line(r, line) ==
    LET r1 == BaseRecord_parse_line(r, line)
        het_id == line.ids[1]
        synonyms == IF DictHas(r1.synonyms, het_id)
                    THEN DictGet(r1.synonyms, het_id) ELSE << >>
    IN  [rec |-> [r1 EXCEPT !.synonyms =
                     DictPut(@, het_id, Append(synonyms, line.text))],
         exc |-> NoExc]

HeterogenSynonym_str(r) ==
    JoinLines([h \in 1..Len(r.synonyms) |->
        [i \in Positions(r.synonyms[h].val) |->
            [BlankLine("HETSYN") EXCEPT
                !.cont = IF i > 1 THEN FmtR2(i) ELSE Blank,
                !.ids = << r.synonyms[h].key >>,
                !.text = r.synonyms[h].val[i]]]])

Formula_init(id) ==
    [inst |-> id, original_text |-> << >>, components |-> << >>]

Formula_parse_line(r, line) ==
    LET r1 == BaseRecord_parse_line(r, line)
    IN  IF ~IntOk(line.num) THEN [rec |-> r1, exc |-> ConvError]
        ELSE
        LET component_num == PyInt(line.num)
            list == IF DictHas(r1.components, component_num)
                    THEN DictGet(r1.components, component_num) ELSE << >>
        IN  [rec |-> [r1 EXCEPT !.components =
                         DictPut(@, component_num,
                             Append(list, [hetatm_id |-> line.ids[1],
                                           text |-> line.text]))],
             exc |-> NoExc]

Formula_str(r) ==
    JoinLines([c \in 1..Len(r.components) |->
        [i \in Positions(r.components[c].val) |->
            [BlankLine("FORMUL") EXCEPT
                !.num = FmtR3(r.components[c].key),
                !.ids = << r.components[c].val[i].hetatm_id >>,
                !.text = r.components[c].val[i].text]]])

\* crystallography.py
\* int(name[5]) for the names the dispatcher passes.
TransformIndex(name) ==
    CASE name \in {"ORIGX1", "SCALE1", "MTRIX1"} -> 1
      [] name \in {"ORIGX2", "SCALE2", "MTRIX2"} -> 2
      [] name \in {"ORIGX3", "SCALE3", "MTRIX3"} -> 3

\* f"ORIGX{n}", f"SCALE{n}", f"MTRIX{n}"
TransformName(family, n) ==
    CASE family = "ORIGX" /\ n = 1 -> "ORIGX1"
      [] family = "ORIGX" /\ n = 2 -> "ORIGX2"
      [] family = "ORIGX" /\ n = 3 -> "ORIGX3"
      [] family = "SCALE" /\ n = 1 -> "SCALE1"
      [] family = "SCALE" /\ n = 2 -> "SCALE2"
      [] family = "SCALE" /\ n = 3 -> "SCALE3"
      [] family = "MTRIX" /\ n = 1 -> "MTRIX1"
      [] family = "MTRIX" /\ n = 2 -> "MTRIX2"
      [] family = "MTRIX" /\ n = 3 -> "MTRIX3"

\* OriginalTransform(n), FractionalTransform(n), NoncrystalTransform(n)
Transform_init(id, n) ==
    [inst |-> id, original_text |-> << >>, n |-> n, num |-> None,
     opt |-> None]

OriginalTransform_parse_line(r, line) ==
    LET r1 == BaseRecord_parse_line(r, line)
    IN  IF FloatOk(line.num)
        THEN [rec |-> [r1 EXCEPT !.num = Some(PyFloat(line.num))],
              exc |-> NoExc]
        ELSE [rec |-> r1, exc |-> ConvError]

OriginalTransform_str(r) ==
    << [BlankLine(TransformName("ORIGX", r.n)) EXCEPT
           !.num = FmtR3(r.num[1])] >>

FractionalTransform_parse_line(r, line) ==
    LET r1 == BaseRecord_parse_line(r, line)
    IN  IF FloatOk(line.num)
        THEN [rec |-> [r1 EXCEPT !.num = Some(PyFloat(line.num))],
              exc |-> NoExc]
        ELSE [rec |-> r1, exc |-> ConvError]

FractionalTransform_str(r) ==
    << [BlankLine(TransformName("SCALE", r.n)) EXCEPT
           !.num = FmtR3(r.num[1])] >>

\* MTRIXn also converts iGiven inside try/except.
NoncrystalTransform_parse_line(r, line) ==
    LET r1 == BaseRecord_parse_line(r, line)
    IN  IF FloatOk(line.num)
        THEN [rec |-> [r1 EXCEPT
                         !.num = Some(PyFloat(line.num)),
                         !.opt = IF IntOk(line.opt)
                                 THEN Some(PyInt(line.opt)) ELSE @],
              exc |-> NoExc]
        ELSE [rec |-> r1, exc |-> ConvError]

NoncrystalTransform_str(r) ==
    << [BlankLine(TransformName("MTRIX", r.n)) EXCEPT
           !.num = FmtR3(r.num[1]),
           !.opt = IF r.opt = None THEN Blank ELSE FmtR3(r.opt[1])] >>

\* bookkeeping.py
Connection_parse_line(r, line) == Strict_parse_line(r, line)

Connection_str(r) == Simple_str(r)

\* The counts a MASTER record declares, in column order; check_master reads
\* them under these attribute names.
MasterCounts ==
    << "num_remark", "num_het", "num_helix", "num_sheet", "num_site",
       "num_xform", "num_coord", "num_ter", "num_conect" >>

Master_init(id) ==
    [kind |-> "MASTER", inst |-> id, original_text |-> << >>,
     num_remark |-> None, num_het |-> None, num_helix |-> None,
     num_sheet |-> None, num_site |-> None, num_xform |-> None,
     num_coord |-> None, num_ter |-> None, num_conect |-> None]

\* The column of a MASTER line that holds the k-th declared count: the
\* first is the numbered column, the others follow in line.ids.
MasterColumn(line, k) ==
    IF k = 1 THEN line.num
    ELSE IF k - 1 \in 1..Len(line.ids) THEN line.ids[k - 1] ELSE Blank

\* Every count column is converted unconditionally.
Master_parse_line(r, line) ==
    LET r1 == BaseRecord_parse_line(r, line)
    IN  IF \A k \in 1..Len(MasterCounts) : IntOk(MasterColumn(line, k))
        THEN [rec |-> [f \in DOMAIN r1 |->
                         IF \E k \in 1..Len(MasterCounts) : MasterCounts[k] = f
                         THEN Some(PyInt(MasterColumn(line,
                                  CHOOSE k \in 1..Len(MasterCounts) :
                                      MasterCounts[k] = f)))
                         ELSE r1[f]],
              exc |-> NoExc]
        ELSE [rec |-> r1, exc |-> ConvError]

Master_str(r) ==
    << [BlankLine("MASTER") EXCEPT
           !.num = FmtR3(r.num_remark[1]),
           !.ids = [k \in 1..(Len(MasterCounts) - 1) |->
                       FmtR3(r[MasterCounts[k + 1]][1])]] >>

\* ------------------------------------------------------------------------
\* general.atom_format and coordinates.py
\* ------------------------------------------------------------------------
\* An atom name or element symbol as its sequence of characters.
Chars(s) ==
    CASE s = "" -> << >>
      [] s = "C" -> << "C" >>
      [] s = "N" -> << "N" >>
      [] s = "H" -> << "H" >>
      [] s = "CA" -> << "C", "A" >>
      [] s = "HG" -> << "H", "G" >>
      [] s = "HG21" -> << "H", "G", "2", "1" >>

\* "".join(cs)
RECURSIVE Text(_)
Text(cs) == IF cs = << >> THEN "" ELSE Head(cs) \o Text(Tail(cs))

\* cs[:n]
Slice(cs, n) == SubSeq(cs, 1, IF Len(cs) < n THEN Len(cs) ELSE n)

Spaces(n) == [i \in 1..n |-> " "]

\* f"{cs:>w}" and f"{cs:<w}": a longer string is written whole.
RJust(cs, w) == Spaces(w - Len(cs)) \o cs

LJust(cs, w) == cs \o Spaces(w - Len(cs))

\* Variant: only the first characters are compared.
SamePrefix_first(name, element) == Slice(name, 1) = Slice(element, 1)

\* name[:2] == element[:2]
SamePrefix(name, element) == Slice(name, 2) = Slice(element, 2)

\* f"{name:>2}  "[:4]
FmtElementName(name) == Slice(RJust(name, 2) \o Spaces(2), 4)

\* f" {name:<3}"[:4]
FmtPlainName(name) == Slice(<< " " >> \o LJust(name, 3), 4)

\* atom_format on the characters of record.name and record.element.
atom_format(name, element) ==
    IF Len(name) = 4 THEN name
    ELSE IF SamePrefix(name, element) THEN FmtElementName(name)
    ELSE FmtPlainName(name)

\* f"{element:>2}"
FmtElement(element) ==
    CASE element = "" -> "  "
      [] element = "C" -> " C"
      [] element = "N" -> " N"
      [] element = "H" -> " H"
      [] OTHER -> element

\* ATOM writes eleven blanks and then f"{element}" without a width: a
\* one-letter symbol lands in column 78, a two-letter symbol in 78-79.
FmtAtomElement(element) ==
    CASE element = "" -> "  "
      [] element = "C" -> " C"
      [] element = "N" -> " N"
      [] element = "H" -> " H"
      [] OTHER -> " **"

\* Atom(), HeterogenAtom(), TemperatureFactor(), ChainTerminus(): kind is
\* the class of the object.
Coord_init(kind, id) ==
    [kind |-> kind, inst |-> id, original_text |-> << >>, serial |-> None,
     name |-> None, chain_id |-> None, res_seq |-> None,
     occupancy |-> Some(0), element |-> ""]

\* Atom.parse_pdb and HeterogenAtom.parse_pdb: serial, residue number and
\* coordinates are converted unconditionally, occupancy and the columns
\* after it inside try/except.
Atom_parse_line(r, line) ==
    LET r1 == BaseRecord_parse_line(r, line)
    IN  IF ~IntOk(line.num) THEN [rec |-> r1, exc |-> ConvError]
        ELSE
        LET r2 == [r1 EXCEPT !.serial = Some(PyInt(line.num)),
                             !.name = Some(Strip(line.text)),
                             !.chain_id = Some(line.chain)]
        IN  IF ~IntOk(line.seq) THEN [rec |-> r2, exc |-> ConvError]
            ELSE [rec |-> [r2 EXCEPT
                             !.res_seq = Some(PyInt(line.seq)),
                             !.occupancy = IF FloatOk(line.opt)
                                           THEN Some(PyFloat(line.opt)) ELSE @,
                             !.element = IF FloatOk(line.opt)
                                         THEN Strip(line.elem) ELSE @],
                  exc |-> NoExc]

Atom_str(r) ==
    << [BlankLine(IF r.kind = "Atom" THEN "ATOM" ELSE "HETATM") EXCEPT
           !.num = FmtR3(r.serial[1]),
           !.text = Text(atom_format(Chars(r.name[1]), Chars(r.element))),
           !.chain = r.chain_id[1],
           !.seq = FmtR3(r.res_seq[1]),
           !.opt = FmtR3(r.occupancy[1]),
           !.elem = IF r.kind = "Atom" THEN FmtAtomElement(r.element)
                    ELSE FmtElement(r.element)] >>

\* ANISOU: every numeric column is converted unconditionally.
TemperatureFactor_parse_line(r, line) ==
    LET r1 == BaseRecord_parse_line(r, line)
    IN  IF IntOk(line.num) /\ IntOk(line.seq) /\ FloatOk(line.opt)
        THEN [rec |-> [r1 EXCEPT !.serial = Some(PyInt(line.num)),
                                 !.name = Some(Strip(line.text)),
                                 !.chain_id = Some(line.chain),
                                 !.res_seq = Some(PyInt(line.seq)),
                                 !.occupancy = Some(PyFloat(line.opt)),
                                 !.element = Strip(line.elem)],
              exc |-> NoExc]
        ELSE [rec |-> r1, exc |-> ConvError]

TemperatureFactor_str(r) ==
    << [BlankLine("ANISOU") EXCEPT
           !.num = FmtR3(r.serial[1]),
           !.text = Text(atom_format(Chars(r.name[1]), Chars(r.element))),
           !.chain = r.chain_id[1],
           !.seq = FmtR3(r.res_seq[1]),
           !.opt = FmtR3(r.occupancy[1]),
           !.elem = FmtElement(r.element)] >>

\* TER: the whole body is inside one try/except; a failed conversion keeps
\* what was assigned before it and skips the rest.
ChainTerminus_parse_line(r, line) ==
    LET r1 == BaseRecord_parse_line(r, line)
    IN  IF ~IntOk(line.num) THEN [rec |-> r1, exc |-> NoExc]
        ELSE
        LET r2 == [r1 EXCEPT !.serial = Some(PyInt(line.num)),
                             !.chain_id = Some(line.chain)]
        IN  [rec |-> IF IntOk(line.seq)
                     THEN [r2 EXCEPT !.res_seq = Some(PyInt(line.seq))]
                     ELSE r2,
             exc |-> NoExc]

\* Formatting None with a width raises TypeError.
ChainTerminus_str_raises(r) == r.serial = None \/ r.res_seq = None

ChainTerminus_str(r) ==
    << [BlankLine("TER") EXCEPT
           !.num = FmtR3(r.serial[1]),
           !.chain = r.chain_id[1],
           !.seq = FmtR3(r.res_seq[1])] >>

Model_init(id) ==
    [inst |-> id, original_text |-> << >>, serial |-> None, records |-> << >>]

\* Model.parse_pdb; id is the identity of the record object it constructs.
Model_parse_line(m, line, id) ==
    LET m1 == BaseRecord_parse_line(m, line)
        name == RecordName(line)
    IN  IF name = "MODEL"
        THEN IF IntOk(line.num)
             THEN [rec |-> [m1 EXCEPT !.serial = Some(PyInt(line.num))],
                   exc |-> NoExc]
             ELSE [rec |-> m1, exc |-> ConvError]
        ELSE IF name = "ENDMDL" THEN [rec |-> m1, exc |-> NoExc]
        ELSE IF name \notin {"ATOM", "ANISOU", "TER", "HETATM"}
        THEN [rec |-> m1, exc |-> "ValueError: Unexpected line"]
        ELSE
        LET res == CASE name = "ATOM" ->
                          Atom_parse_line(Coord_init("Atom", id), line)
                     [] name = "HETATM" ->
                          Atom_parse_line(Coord_init("HeterogenAtom", id), line)
                     [] name = "ANISOU" ->
                          TemperatureFactor_parse_line(
                              Coord_init("TemperatureFactor", id), line)
                     [] name = "TER" ->
                          ChainTerminus_parse_line(
                              Coord_init("ChainTerminus", id), line)
        IN  IF res.exc # NoExc THEN [rec |-> m1, exc |-> res.exc]
            ELSE [rec |-> [m1 EXCEPT !.records = Append(@, res.rec)],
                  exc |-> NoExc]

\* all_atoms: the Atom and HeterogenAtom records, in order.
all_atoms(m) ==
    SelectSeq(m.records, LAMBDA r : r.kind \in {"Atom", "HeterogenAtom"})

Coord_str(r) ==
    CASE r.kind \in {"Atom", "HeterogenAtom"} -> Atom_str(r)
      [] r.kind = "TemperatureFactor" -> TemperatureFactor_str(r)
      [] r.kind = "ChainTerminus" -> ChainTerminus_str(r)

Model_str_raises(m) ==
    \E i \in 1..Len(m.records) :
        /\ m.records[i].kind = "ChainTerminus"
        /\ ChainTerminus_str_raises(m.records[i])

\* A serial of None or 0 is falsy and writes no MODEL line.
Model_str(m) ==
    (IF m.serial # None /\ m.serial # Some(0)
     THEN << [BlankLine("MODEL") EXCEPT !.num = FmtR3(m.serial[1])] >>
     ELSE << >>)
    \o JoinLines([i \in 1..Len(m.records) |-> Coord_str(m.records[i])])

\* ------------------------------------------------------------------------
\* secondary.Link
\* ------------------------------------------------------------------------
Link_init(id) ==
    [inst |-> id, original_text |-> << >>,
     name1 |-> None, chain_id1 |-> None, res_seq1 |-> None,
     name2 |-> None, chain_id2 |-> None, res_seq2 |-> None,
     is_element1 |-> None, is_element2 |-> None]

Link_parse_line(r, line) ==
    LET r1 == [BaseRecord_parse_line(r, line) EXCEPT
                  !.name1 = Some(Strip(line.text)),
                  !.chain_id1 = Some(line.chain)]
    IN  IF ~IntOk(line.seq) THEN [rec |-> r1, exc |-> ConvError]
        ELSE
        LET r2 == [r1 EXCEPT !.res_seq1 = Some(PyInt(line.seq)),
                             !.name2 = Some(Strip(line.text2)),
                             !.chain_id2 = Some(line.chain2)]
        IN  IF ~IntOk(line.seq2) THEN [rec |-> r2, exc |-> ConvError]
            ELSE [rec |-> [r2 EXCEPT !.res_seq2 = Some(PyInt(line.seq2))],
                  exc |-> NoExc]

\* f"{name:>4}"
FmtR4Name(name) ==
    CASE name = "" -> "    "
      [] name = "N" -> "   N"
      [] name = "CA" -> "  CA"
      [] name = "HG21" -> "HG21"

\* The atom-name column of a LINK line.
Link_name(name, is_element) ==
    IF is_element THEN Text(FmtElementName(Chars(name)))
    ELSE IF Len(Chars(name)) = 2 THEN Text(FmtPlainName(Chars(name)))
    ELSE FmtR4Name(name)

NotAnnotated == "ValueError: Must run annotate_link first"

\* Variant: the check fires only when neither flag has been set.
Link_str_raises_both(r) == r.is_element1 = None /\ r.is_element2 = None

\* "if None in [self.is_element1, self.is_element2]: raise ValueError"
Link_str_raises(r) == r.is_element1 = None \/ r.is_element2 = None

Link_str(r) ==
    << [BlankLine("LINK") EXCEPT
           !.text = Link_name(r.name1[1], r.is_element1 = Some(TRUE)),
           !.chain = r.chain_id1[1],
           !.seq = FmtR3(r.res_seq1[1]),
           !.text2 = Link_name(r.name2[1], r.is_element2 = Some(TRUE)),
           !.chain2 = r.chain_id2[1],
           !.seq2 = FmtR3(r.res_seq2[1])] >>

\* ------------------------------------------------------------------------
\* pdb_entry.Entry
\* ------------------------------------------------------------------------
REF_LINE == "0        1 ...\n1234567890..."

\* Entry(): singleton slots are None, list slots are empty.  ids is the
\* identity the next constructed object receives.
Entry_init ==
    [_header |-> None, _obsolete |-> None, _title |-> None, _split |-> None,
     _caveat |-> None, _compound |-> None, _source |-> None,
     _keyword |-> None, _experimental_data |-> None, _num_model |-> None,
     _model_type |-> None, _author |-> None, _revision_data |-> None,
     _supersedes |-> None, _journal |-> << >>, _remark |-> << >>,
     _database_reference |-> << >>, _sequence_difference |-> << >>,
     _sequence_residue |-> None, _modified_residue |-> << >>,
     _heterogen |-> << >>, _heterogen_name |-> None,
     _heterogen_synonym |-> None, _heterogen_formula |-> None,
     _helix |-> << >>, _sheet |-> << >>, _disulfide_bond |-> << >>,
     _link |-> << >>, _cis_peptide |-> << >>, site |-> << >>,
     _unit_cell |-> None, _orig_transform |-> << >>,
     _frac_transform |-> << >>, _noncrystal_transform |-> << >>,
     _model |-> << >>, _connect |-> << >>, _master |-> None,
     ids |-> 1]

\* Variant: every access constructs a new Author.
author_fresh(e) ==
    [e EXCEPT !._author = Some(Author_init(e.ids)), !.ids = @ + 1]

\* The author property: constructs the Author on first access.
author(e) ==
    IF e._author = None
    THEN [e EXCEPT !._author = Some(Author_init(e.ids)), !.ids = @ + 1]
    ELSE e

\* The object parse_line is called on where the dispatcher constructs one
\* only "if not self._x": the record in the slot, or a new one.
Stored(e, f, init(_)) == IF Truthy(e[f]) THEN e[f][1] ELSE init(e.ids)

\* "if not self._x: self._x = X()" followed by "self._x.parse_line(line)";
\* res is the outcome of that parse_line on Stored(e, f, X).
LazyParse(e, f, res) ==
    [entry |-> [e EXCEPT ![f] = Some(res.rec),
                         !.ids = IF Truthy(e[f]) THEN @ ELSE @ + 1],
     exc |-> res.exc]

\* "if <exists>: raise ValueError" followed by construction and parse_line;
\* res is the outcome of parse_line on the new record.
UniqueParse(e, f, exists, res, msg) ==
    IF exists THEN [entry |-> e, exc |-> msg]
    ELSE [entry |-> [e EXCEPT ![f] = Some(res.rec), !.ids = @ + 1],
          exc |-> res.exc]

\* Construction, parse_line, then list.append: a record whose parse_line
\* raises is not appended.  res is the outcome of parse_line.
AppendParse(e, f, res) ==
    IF res.exc # NoExc
    THEN [entry |-> [e EXCEPT !.ids = @ + 1], exc |-> res.exc]
    ELSE [entry |-> [e EXCEPT ![f] = Append(@, res.rec), !.ids = @ + 1],
          exc |-> NoExc]

TooMany == "ValueError: Too many transforms."

\* Variant: a limit of four records per family.
MaxTransforms_four == 3 + 1

\* The limit the transform branches compare the list length with.
MaxTransforms == 3

\* ORIGXn / SCALEn / MTRIXn: the length of the list is checked after the
\* record is appended; res is the outcome of the append.
TransformParse(f, res) ==
    IF res.exc # NoExc THEN res
    ELSE IF Len(res.entry[f]) > MaxTransforms
    THEN [res EXCEPT !.exc = TooMany]
    ELSE res

\* Variant: self._model[0]
LastIndex_first(models) == 1

\* self._model[-1]
LastIndex(models) == Len(models)

\* Variant: the list is replaced by a new Model on every coordinate line.
CurrentModels_fresh(e) == << Model_init(e.ids) >>

\* "if len(self._model) == 0: self._model = [coordinates.Model()]"
CurrentModels(e) ==
    IF Len(e._model) = 0 THEN << Model_init(e.ids) >> ELSE e._model

\* "self._model[-1].parse_line(line)": res is the outcome of parse_line on
\* the last Model of models.
CoordParse(e, models, res) ==
    [entry |-> [e EXCEPT
                  !._model = [models EXCEPT ![LastIndex(models)] = res.rec],
                  !.ids = @ + 2],
     exc |-> res.exc]

\* The AUTHOR branch: "if not self.author" reads the property, whose getter
\* has already constructed the record; the property has no setter.  res is
\* the outcome of parse_line on the Author of e1.
AuthorParse(e1, res) ==
    IF ~Truthy(e1._author)
    THEN [entry |-> e1, exc |-> "AttributeError: can't set attribute"]
    ELSE [entry |-> [e1 EXCEPT !._author = Some(res.rec)], exc |-> res.exc]

Unexpected == "ValueError: Unexpected entry"

AlreadyExists == "ValueError: already exists"

\* Variant: a line with an unknown record name is skipped.
UnexpectedEntry_ignored(e, line) == [entry |-> e, exc |-> NoExc]

\* The else branch of the dispatcher.
UnexpectedEntry(e, line) == [entry |-> e, exc |-> Unexpected]

Entry_parse_line(e, line) ==
    CASE line.name = "HEADER" ->
           UniqueParse(e, "_header", Truthy(e._header),
                       Header_parse_line(Header_init(e.ids), line),
                       AlreadyExists)
      [] line.name = "OBSLTE" ->
           LazyParse(e, "_obsolete",
               Obsolete_parse_line(Stored(e, "_obsolete", Obsolete_init),
                                   line))
      [] line.name = "TITLE" ->
           LazyParse(e, "_title",
               Title_parse_line(Stored(e, "_title", Title_init), line))
      [] line.name = "SPLIT" ->
           LazyParse(e, "_split",
               Split_parse_line(Stored(e, "_split", Split_init), line))
      [] line.name = "CAVEAT" ->
           LazyParse(e, "_caveat",
               Caveat_parse_line(Stored(e, "_caveat", Caveat_init), line))
      [] line.name = "COMPND" ->
           LazyParse(e, "_compound",
               Compound_parse_line(Stored(e, "_compound", Compound_init),
                                   line))
      [] line.name = "SOURCE" ->
           LazyParse(e, "_source",
               Source_parse_line(Stored(e, "_source", Source_init), line))
      [] line.name = "KEYWDS" ->
           LazyParse(e, "_keyword",
               Keywords_parse_line(Stored(e, "_keyword", Keywords_init),
                                   line))
      [] line.name = "EXPDTA" ->
           LazyParse(e, "_experimental_data",
               ExperimentalData_parse_line(
                   Stored(e, "_experimental_data", ExperimentalData_init),
                   line))
      [] line.name = "NUMMDL" ->
           UniqueParse(e, "_num_model", e._num_model # None,
                       NumModels_parse_line(NumModels_init(e.ids), line),
                       AlreadyExists)
      [] line.name = "MDLTYP" ->
           LazyParse(e, "_model_type",
               ModelType_parse_line(Stored(e, "_model_type", ModelType_init),
                                    line))
      [] line.name = "AUTHOR" ->
           AuthorParse(author(e),
                       Author_parse_line(Stored(author(e), "_author",
                                                Author_init), line))
      [] line.name = "REVDAT" ->
           LazyParse(e, "_revision_data",
               RevisionData_parse_line(
                   Stored(e, "_revision_data", RevisionData_init), line))
      [] line.name = "SPRSDE" ->
           LazyParse(e, "_supersedes",
               Supersedes_parse_line(Stored(e, "_supersedes", Supersedes_init),
                                     line))
      [] line.name = "JRNL" ->
           AppendParse(e, "_journal",
                       Journal_parse_line(Journal_init(e.ids), line))
      [] line.name = "REMARK" ->
           AppendParse(e, "_remark",
                       Remark_parse_line(Remark_init(e.ids), line))
      [] line.name = "DBREF" ->
           AppendParse(e, "_database_reference",
                       Strict_parse_line(
                           Simple_init("DBREF", e.ids), line))
      [] line.name = "DBREF1" ->
           AppendParse(e, "_database_reference",
                       Strict_parse_line(
                           Simple_init("DBREF1", e.ids), line))
      [] line.name = "DBREF2" ->
           AppendParse(e, "_database_reference",
                       Strict_parse_line(
                           Simple_init("DBREF2", e.ids), line))
      [] line.name = "SEQADV" ->
           AppendParse(e, "_sequence_difference",
                       SequenceDifferences_parse_line(
                           Simple_init("SEQADV", e.ids), line))
      [] line.name = "SEQRES" ->
           LazyParse(e, "_sequence_residue",
               SequenceResidues_parse_line(
                   Stored(e, "_sequence_residue", SequenceResidues_init),
                   line))
      [] line.name = "HET" ->
           AppendParse(e, "_heterogen",
                       Strict_parse_line(Simple_init("HET", e.ids), line))
      [] line.name = "HETNAM" ->
           LazyParse(e, "_heterogen_name",
               HeterogenName_parse_line(
                   Stored(e, "_heterogen_name", HeterogenName_init), line))
      [] line.name = "HETSYN" ->
           LazyParse(e, "_heterogen_synonym",
               HeterogenSynonym_parse_line(
                   Stored(e, "_heterogen_synonym", HeterogenSynonym_init),
                   line))
      [] line.name = "FORMUL" ->
           LazyParse(e, "_heterogen_formula",
               Formula_parse_line(
                   Stored(e, "_heterogen_formula", Formula_init), line))
      [] line.name = "HELIX" ->
           AppendParse(e, "_helix",
                       Tolerant_parse_line(Simple_init("HELIX", e.ids), line))
      [] line.name = "SHEET" ->
           AppendParse(e, "_sheet",
                       Tolerant_parse_line(Simple_init("SHEET", e.ids), line))
      [] line.name = "SSBOND" ->
           AppendParse(e, "_disulfide_bond",
                       Strict_parse_line(
                           Simple_init("SSBOND", e.ids), line))
      [] line.name = "LINK" ->
           AppendParse(e, "_link", Link_parse_line(Link_init(e.ids), line))
      [] line.name = "CISPEP" ->
           AppendParse(e, "_cis_peptide",
                       Strict_parse_line(
                           Simple_init("CISPEP", e.ids), line))
      [] line.name = "SITE" ->
           AppendParse(e, "site", Site_parse_line(Site_init(e.ids), line))
      [] line.name = "CRYST1" ->
           UniqueParse(e, "_unit_cell", e._unit_cell # None,
                       Tolerant_parse_line(Simple_init("CRYST1", e.ids), line),
                       AlreadyExists)
      [] line.name \in {"ORIGX1", "ORIGX2", "ORIGX3"} ->
           TransformParse("_orig_transform",
               AppendParse(e, "_orig_transform",
                   OriginalTransform_parse_line(
                       Transform_init(e.ids, TransformIndex(line.name)),
                       line)))
      [] line.name \in {"SCALE1", "SCALE2", "SCALE3"} ->
           TransformParse("_frac_transform",
               AppendParse(e, "_frac_transform",
                   FractionalTransform_parse_line(
                       Transform_init(e.ids, TransformIndex(line.name)),
                       line)))
      [] line.name \in {"MTRIX1", "MTRIX2", "MTRIX3"} ->
           TransformParse("_noncrystal_transform",
               AppendParse(e, "_noncrystal_transform",
                   NoncrystalTransform_parse_line(
                       Transform_init(e.ids, TransformIndex(line.name)),
                       line)))
      [] line.name = "MODEL" ->
           AppendParse(e, "_model",
                       Model_parse_line(Model_init(e.ids), line, e.ids))
      [] line.name \in {"ATOM", "ANISOU", "TER", "HETATM"} ->
           CoordParse(e, CurrentModels(e),
               Model_parse_line(
                   CurrentModels(e)[LastIndex(CurrentModels(e))], line,
                   e.ids + 1))
      [] line.name = "CONECT" ->
           AppendParse(e, "_connect",
                       Connection_parse_line(Simple_init("CONECT", e.ids),
                                             line))
      [] line.name = "MASTER" ->
           UniqueParse(e, "_master", Truthy(e._master),
                       Master_parse_line(Master_init(e.ids), line),
                       AlreadyExists)
      [] line.name \in {"ENDMDL", "END"} -> [entry |-> e, exc |-> NoExc]
      [] OTHER -> UnexpectedEntry(e, line)

\* len(self._orig_transform) + len(self._frac_transform)
\* + len(self._noncrystal_transform)
num_transforms(e) ==
    Len(e._orig_transform) + Len(e._frac_transform)
    + Len(e._noncrystal_transform)

\* Model.num_atoms(heavy_only=True): the atoms whose element is neither H
\* nor D.
Model_num_atoms(m) ==
    Len(SelectSeq(all_atoms(m), LAMBDA atom : atom.element \notin {"H", "D"}))

\* Model.num_ter
Model_num_ter(m) ==
    Len(SelectSeq(m.records, LAMBDA r : r.kind = "ChainTerminus"))

\* Entry.num_atoms reads self._model[0]: IndexError without a Model.
num_atoms(e) == Model_num_atoms(e._model[1])

\* Entry.num_ter: the TER records of every Model.
RECURSIVE SumTer(_)
SumTer(models) ==
    IF models = << >> THEN 0
    ELSE Model_num_ter(Head(models)) + SumTer(Tail(models))

num_ter(e) == SumTer(e._model)

NoModel == "IndexError: list index out of range"

NoMaster ==
    "AttributeError: 'NoneType' object has no attribute 'num_remark'"

\* str(expected): a declared count, or None.
ShowCount(expected) ==
    IF expected = None THEN "None" ELSE ToString(expected[1])

\* The warning check_master logs for one failed check.
MasterWarning(c) ==
    "MASTER indicates " \o ShowCount(c.expected) \o " " \o c.field
    \o " records; found " \o ToString(c.test) \o "."
    \o " However, the MASTER record is hard to interpret."

\* The list of (field, expected, test) check_master builds; master is the
\* stored Master record.
MasterChecks(e, master) ==
    << [field |-> "model",
        expected |-> IF e._num_model # None
                     THEN e._num_model[1].model_number ELSE Some(1),
        test |-> Len(e._model)],
       [field |-> "REMARK", expected |-> master.num_remark,
        test |-> Len(e._remark)],
       [field |-> "HETATM", expected |-> master.num_het,
        test |-> Len(e._heterogen)],
       [field |-> "HELIX", expected |-> master.num_helix,
        test |-> Len(e._helix)],
       [field |-> "SHEET", expected |-> master.num_sheet,
        test |-> Len(e._sheet)],
       [field |-> "SITE", expected |-> master.num_site,
        test |-> Len(e.site)],
       [field |-> "transform", expected |-> master.num_xform,
        test |-> num_transforms(e)],
       [field |-> "coordinate", expected |-> master.num_coord,
        test |-> num_atoms(e)],
       [field |-> "TER", expected |-> master.num_ter, test |-> num_ter(e)],
       [field |-> "CONECT", expected |-> master.num_conect,
        test |-> Len(e._connect)] >>

\* The warnings of the checks whose assertion fails, in list order.
MasterWarnings(checks) ==
    LET failed == SelectSeq(checks, LAMBDA c : c.expected # Some(c.test))
    IN  [i \in 1..Len(failed) |-> MasterWarning(failed[i])]

\* check_master reading the model count through the num_model property,
\* which stores a new NumModels when none was parsed.
check_master_getter(e) ==
    LET e1 == [e EXCEPT !._num_model =
                   IF @ = None THEN Some(NumModels_init(e.ids)) ELSE @,
                        !.ids = IF e._num_model = None THEN @ + 1 ELSE @]
    IN  IF e._master = None
        THEN [entry |-> e1, exc |-> NoMaster, log |-> << >>]
        ELSE IF e._model = << >>
        THEN [entry |-> e1, exc |-> NoModel, log |-> << >>]
        ELSE [entry |-> e1, exc |-> NoExc,
              log |-> MasterWarnings(MasterChecks(e1, e._master[1]))]

\* Entry.check_master.  The list of checks is built before any comparison:
\* master.num_remark raises without a MASTER record and num_atoms raises
\* without a Model.  A failed assertion is caught and logged.
check_master(e) ==
    IF e._master = None
    THEN [entry |-> e, exc |-> NoMaster, log |-> << >>]
    ELSE IF e._model = << >>
    THEN [entry |-> e, exc |-> NoModel, log |-> << >>]
    ELSE [entry |-> e, exc |-> NoExc,
          log |-> MasterWarnings(MasterChecks(e, e._master[1]))]

\* find_residue: IndexError when the Entry has no model_num-th Model.
find_residue(e, chain_id, residue_id, model_num) ==
    SelectSeq(all_atoms(e._model[model_num]),
              LAMBDA atom : atom.chain_id = chain_id
                            /\ atom.res_seq = residue_id)

\* find_atom_by_name: the first atom of the residue with that name, or None.
find_atom_by_name(e, chain_id, residue_id, atom_name) ==
    LET First(atoms) ==
            IF atoms = << >> THEN None ELSE Some(Head(atoms))
    IN  First(SelectSeq(find_residue(e, chain_id, residue_id, 1),
                        LAMBDA atom : atom.name = atom_name))

\* atom.name[:2] == atom.element[:2]
is_element(atom) ==
    SamePrefix(Chars(atom.name[1]), Chars(atom.element))


\* f"Unable to find atom {record.name1} in residue {record.res_seq1} in
\* chain {record.chain_id1}."
NoAtom1(name, res_seq, chain_id) ==
    "AttributeError: Unable to find atom " \o name \o " in residue "
    \o ToString(res_seq) \o " in chain " \o chain_id \o "."

NoAtom2 == "AttributeError: 'NoneType' object has no attribute 'name'"

\* annotate_link: the record is annotated in place; is_element1 is already
\* assigned when the lookup of the second atom fails.
annotate_link(e, record) ==
    LET Annotate(atom1, atom2) ==
            IF atom1 = None
            THEN [rec |-> record,
                  exc |-> NoAtom1(record.name1[1], record.res_seq1[1],
                                  record.chain_id1[1])]
            ELSE IF atom2 = None
            THEN [rec |-> [record EXCEPT
                             !.is_element1 = Some(is_element(atom1[1]))],
                  exc |-> NoAtom2]
            ELSE [rec |-> [record EXCEPT
                             !.is_element1 = Some(is_element(atom1[1])),
                             !.is_element2 = Some(is_element(atom2[1]))],
                  exc |-> NoExc]
    IN  IF Len(e._model) = 0 THEN [rec |-> record, exc |-> NoModel]
        ELSE Annotate(find_atom_by_name(e, record.chain_id1, record.res_seq1,
                                        record.name1),
                      find_atom_by_name(e, record.chain_id2, record.res_seq2,
                                        record.name2))

\* str(record) as an element of the list handed to "\n".join: a record
\* whose text is the empty string still contributes one (empty) line.
Str(lines) == IF lines = << >> THEN << EmptyLine >> ELSE lines

\* A singleton slot in a section loop: skipped when None.
Slot(x, str(_)) == IF x = None THEN << >> ELSE << Str(str(x[1])) >>

\* A list slot in a section loop.
List(xs, str(_)) == [i \in 1..Len(xs) |-> Str(str(xs[i]))]

TypeErr == "TypeError: unsupported format string passed to NoneType"

\* The first index of a list whose record cannot be formatted, or 0.
FirstRaising(xs, raises(_)) ==
    LET bad == {i \in 1..Len(xs) : raises(xs[i])}
    IN  IF bad = {} THEN 0 ELSE CHOOSE i \in bad : \A j \in bad : i <= j

\* The LINK loop: records are annotated in list order until one fails.
RECURSIVE AnnotateAll(_, _)
AnnotateAll(e, links) ==
    IF links = << >> THEN [recs |-> << >>, exc |-> NoExc]
    ELSE LET Next1(res) ==
                 IF res.exc # NoExc
                 THEN [recs |-> << res.rec >> \o Tail(links),
                       exc |-> res.exc]
                 ELSE LET Next2(rest) ==
                              [recs |-> << res.rec >> \o rest.recs,
                               exc |-> rest.exc]
                      IN  Next2(AnnotateAll(e, Tail(links)))
         IN  Next1(annotate_link(e, Head(links)))

\* Variant: ENDMDL separates the Models and does not follow the last one.
Models_str_between(models) ==
    JoinLines([i \in 1..Len(models) |->
        << Str(Model_str(models[i])) >>
        \o (IF i < Len(models) THEN << << BlankLine("ENDMDL") >> >>
            ELSE << >>)])

\* The strings of the coordinate section: ENDMDL follows every Model when
\* the Entry holds more than one.
Models_str(models) ==
    JoinLines([i \in 1..Len(models) |->
        << Str(Model_str(models[i])) >>
        \o (IF Len(models) > 1 THEN << << BlankLine("ENDMDL") >> >>
            ELSE << >>)])

\* Entry.__str__ after its first two steps: e1 is the Entry once the
\* author getter has run, ann the outcome of the LINK loop.  entry is the
\* Entry afterwards, lines the text split into lines, exc the exception
\* that left the method, if any.
Entry_format(e1, ann) ==
    LET e2 == [e1 EXCEPT !._link = ann.recs]
        strings ==
            Slot(e2._header, Header_str)
            \o Slot(e2._obsolete, Obsolete_str)
            \o Slot(e2._title, Title_str)
            \o Slot(e2._split, Split_str)
            \o Slot(e2._caveat, Caveat_str)
            \o Slot(e2._compound, Compound_str)
            \o Slot(e2._source, Source_str)
            \o Slot(e2._keyword, Keywords_str)
            \o Slot(e2._experimental_data, ExperimentalData_str)
            \o Slot(e2._num_model, NumModels_str)
            \o Slot(e2._model_type, ModelType_str)
            \o Slot(e2._author, Author_str)
            \o Slot(e2._revision_data, RevisionData_str)
            \o Slot(e2._supersedes, Supersedes_str)
            \o List(e2._journal, Journal_str)
            \o List(e2._remark, Remark_str)
            \o List(e2._database_reference, Simple_str)
            \o List(e2._sequence_difference, Simple_str)
            \o Slot(e2._sequence_residue, SequenceResidues_str)
            \o List(e2._heterogen, Simple_str)
            \o Slot(e2._heterogen_name, HeterogenName_str)
            \o Slot(e2._heterogen_synonym, HeterogenSynonym_str)
            \o Slot(e2._heterogen_formula, Formula_str)
            \o List(e2._helix, Simple_str)
            \o List(e2._sheet, Simple_str)
            \o List(e2._disulfide_bond, Simple_str)
            \o List(e2._link, Link_str)
            \o List(e2._cis_peptide, Simple_str)
            \o List(e2.site, Site_str)
            \o Slot(e2._unit_cell, Simple_str)
            \o List(e2._orig_transform, OriginalTransform_str)
            \o List(e2._frac_transform, FractionalTransform_str)
            \o List(e2._noncrystal_transform, NoncrystalTransform_str)
            \o Models_str(e2._model)
            \o List(e2._connect, Connection_str)
            \o Slot(e2._master, Master_str)
            \o << << BlankLine("END") >> >>
    IN  IF FirstRaising(e1._sequence_difference, Simple_str_raises) # 0
           \/ FirstRaising(e1._helix, Simple_str_raises) # 0
        THEN [entry |-> e1, lines |-> << >>, exc |-> TypeErr]
        ELSE IF ann.exc # NoExc
        THEN [entry |-> e2, lines |-> << >>, exc |-> ann.exc]
        ELSE IF FirstRaising(e2._noncrystal_transform, Simple_str_raises) # 0
                \/ FirstRaising(e2._model, Model_str_raises) # 0
        THEN [entry |-> e2, lines |-> << >>, exc |-> TypeErr]
        ELSE [entry |-> e2, lines |-> JoinLines(strings), exc |-> NoExc]

Entry_str(e) == Entry_format(author(e), AnnotateAll(author(e), author(e)._link))

\* The message of the ValueError parse_file raises: the ruler, the line,
\* and the exception it was raised from.
OffendingLine(line, cause) ==
    [ref |-> REF_LINE, line |-> line, cause |-> cause]

\* Variant: the loop swallows the exception and goes on.
parse_file_step_tolerant(e, line) ==
    [entry |-> Entry_parse_line(e, line).entry, err |-> None]

\* The body of the loop of parse_file: err is None when parse_line returns.
parse_file_step(e, line) ==
    LET Caught(res) ==
            [entry |-> res.entry,
             err |-> IF res.exc = NoExc THEN None
                     ELSE Some(OffendingLine(line, res.exc))]
    IN  Caught(Entry_parse_line(e, line))

\* ------------------------------------------------------------------------
\* State
\* ------------------------------------------------------------------------
\* entry:  the Entry object
\* doc:    the lines parse_file has taken from the file so far
\* status: "parsing" inside the loop of parse_file, "returned" after it,
\*         "raised" when parse_file raised
\* err:    the exception parse_file raised, or None
\* out:    None, or the outcome of str(entry)
\* call:   None, or the outcome of a method called on the parsed Entry or
\*         on one of its records
VARIABLES entry, doc, status, err, out, call

vars == << entry, doc, status, err, out, call >>

Init ==
    /\ entry = Entry_init
    /\ doc = << >>
    /\ status = "parsing"
    /\ err = None
    /\ out = None
    /\ call = None

\* One iteration of "for line in file_": the file yields one of lines.
ParseFileStep(lines, limit) ==
    /\ status = "parsing"
    /\ Len(doc) < limit
    /\ \E line \in lines :
         \E res \in {parse_file_step(entry, line)} :
             /\ entry' = res.entry
             /\ doc' = Append(doc, line)
             /\ err' = res.err
             /\ status' = IF res.err = None THEN "parsing" ELSE "raised"
    /\ UNCHANGED << out, call >>

\* The file is exhausted and parse_file returns.
ParseFileReturn ==
    /\ status = "parsing"
    /\ status' = "returned"
    /\ UNCHANGED << entry, doc, err, out, call >>

\* str(entry) on the parsed Entry.
Format ==
    /\ status = "returned"
    /\ out = None
    /\ \E res \in {Entry_str(entry)} :
           /\ entry' = res.entry
           /\ out' = Some([lines |-> res.lines, exc |-> res.exc])
    /\ UNCHANGED << doc, status, err, call >>

\* str(record) on a LINK record of the parsed Entry, before or after
\* str(entry).
FormatLink ==
    /\ status = "returned"
    /\ call = None
    /\ \E i \in 1..Len(entry._link) :
         call' = Some([op |-> "Link.__str__",
                       rec |-> entry._link[i],
                       exc |-> IF Link_str_raises(entry._link[i])
                               THEN NotAnnotated ELSE NoExc,
                       lines |-> IF Link_str_raises(entry._link[i])
                                 THEN << >> ELSE Link_str(entry._link[i])])
    /\ UNCHANGED << entry, doc, status, err, out >>

\* ------------------------------------------------------------------------
\* Files: the lines a file of each family can yield
\* ------------------------------------------------------------------------
MaxTransformLines == 4

GoodDate == "08-MAR-07"

BadDate == "08-XXX-07"

HeaderLine(date) ==
    [BlankLine("HEADER") EXCEPT !.text = "HYDROLASE", !.date = date,
                                !.ids = << "1ABC" >>]

DatedLine(name, date) ==
    [BlankLine(name) EXCEPT !.date = date, !.text = "1ABC",
                            !.ids = << "2DEF" >>]

NumberedLine(name, num, opt) ==
    [BlankLine(name) EXCEPT !.num = num, !.opt = opt, !.text = "x"]

\* A SITE line of site x with one residue, declaring one residue.
SiteLine(num, opt) ==
    [NumberedLine("SITE", num, opt) EXCEPT !.seq = "  1",
                                           !.ids = << "ALA" >>]

\* A MASTER line declaring the given numbers of REMARK, HET, coordinate
\* and TER records and no other record.
MasterLine(remark, het, coord, ter) ==
    [BlankLine("MASTER") EXCEPT
        !.num = remark,
        !.ids = << het, "  0", "  0", "  0", "  0", coord, ter, "  0" >>]

CoordLine(name, num, seq) ==
    [BlankLine(name) EXCEPT !.num = num, !.text = " CA ", !.chain = "A",
                            !.seq = seq, !.opt = "  1", !.elem = " C"]

\* The record names of the continuation-bearing text records.
ContinuationNames ==
    {"AUTHOR", "TITLE", "KEYWDS", "COMPND", "SOURCE", "EXPDTA", "MDLTYP",
     "CAVEAT"}

\* First and continuation lines of the text records, in canonical numbering.
TitleLines ==
    { HeaderLine(GoodDate),
      Line("TITLE", Blank, "a"), Line("TITLE", "  2", "b"),
      [Line("CAVEAT", Blank, "a") EXCEPT !.ids = << "1ABC" >>],
      Line("COMPND", Blank, "a"), Line("SOURCE", Blank, "a"),
      Line("KEYWDS", Blank, "a"),
      Line("EXPDTA", Blank, "a"), Line("EXPDTA", "  2", "b"),
      Line("MDLTYP", Blank, "a"), Line("AUTHOR", Blank, "a"),
      DatedLine("OBSLTE", GoodDate), DatedLine("SPRSDE", GoodDate),
      [BlankLine("SPLIT") EXCEPT !.ids = << "1ABC", "2DEF" >>],
      NumberedLine("REMARK", "  2", Blank),
      BlankLine("END") }

\* Text-record lines whose continuation numbers are missing or out of step.
ScrambledLines ==
    { Line(name, Blank, "a") : name \in ContinuationNames }
    \cup { Line(name, "  3", "b") : name \in ContinuationNames }

SingletonLines ==
    { HeaderLine(GoodDate), NumberedLine("NUMMDL", "  2", Blank),
      NumberedLine("CRYST1", "  1", "  1"),
      MasterLine("  0", "  0", "  0", "  0"),
      Line("TITLE", Blank, "a"), NumberedLine("REMARK", "  2", Blank) }

TransformLines ==
    { NumberedLine("ORIGX1", "  1", Blank),
      NumberedLine("ORIGX2", "  0", Blank),
      NumberedLine("ORIGX3", "  X", Blank),
      NumberedLine("SCALE1", "  1", Blank),
      NumberedLine("MTRIX1", "  1", "  1"),
      NumberedLine("REMARK", "  2", Blank) }

CoordLines ==
    { [BlankLine("MODEL") EXCEPT !.num = "  1"],
      [BlankLine("MODEL") EXCEPT !.num = "  2"],
      CoordLine("ATOM", "  1", "  1"), CoordLine("HETATM", "  2", "  1"),
      CoordLine("ANISOU", "  3", "  1"), CoordLine("TER", "  4", "  1"),
      CoordLine("ATOM", "  X", "  1"), BlankLine("ENDMDL") }

MiscLines ==
    { BlankLine("FOOBAR"), BlankLine(""),
      HeaderLine(GoodDate), HeaderLine(BadDate),
      NumberedLine("REMARK", "  2", Blank),
      NumberedLine("REMARK", "  X", Blank),
      SiteLine("  1", "  2"),
      SiteLine("  1", "  X"),
      SiteLine("  X", "  2"),
      Line("TITLE", Blank, "a") }

LinkLine(text, seq, text2, seq2) ==
    [BlankLine("LINK") EXCEPT !.text = text, !.chain = "A", !.seq = seq,
                              !.text2 = text2, !.chain2 = "A", !.seq2 = seq2]

\* Two atoms of residue 1 of chain A, and LINK lines between atoms that
\* exist, to an atom that does not exist, from an atom that does not exist
\* and with an unreadable residue number.
LinkLines ==
    { CoordLine("ATOM", "  1", "  1"),
      [CoordLine("ATOM", "  2", "  1") EXCEPT !.text = " N  ", !.elem = " N"],
      LinkLine(" CA ", "  1", " N  ", "  1"),
      LinkLine(" CA ", "  1", " CA ", "  2"),
      LinkLine(" CA ", "  2", " N  ", "  1"),
      LinkLine(" CA ", "  X", " N  ", "  1") }

\* One line of every section of the format.
SectionLines ==
    { Line("TITLE", Blank, "a"),
      [BlankLine("SPLIT") EXCEPT !.ids = << "1ABC", "2DEF" >>],
      NumberedLine("DBREF", "  1", Blank),
      NumberedLine("HET", "  1", Blank),
      NumberedLine("HELIX", "  1", "  1"),
      NumberedLine("SSBOND", "  1", Blank),
      SiteLine("  1", "  2"),
      NumberedLine("ORIGX1", "  1", Blank),
      CoordLine("ATOM", "  1", "  1"),
      NumberedLine("CONECT", "  1", Blank),
      MasterLine("  0", "  0", "  0", "  0") }

\* ------------------------------------------------------------------------
\* Specifications: one per family of files
\* ------------------------------------------------------------------------
NextTitle ==
    \/ ParseFileStep(TitleLines, MaxLines)
    \/ ParseFileReturn
    \/ Format

SpecTitle == Init /\ [][NextTitle]_vars

NextScrambled ==
    \/ ParseFileStep(ScrambledLines, MaxLines)
    \/ ParseFileReturn
    \/ Format

SpecScrambled == Init /\ [][NextScrambled]_vars

NextSingleton ==
    \/ ParseFileStep(SingletonLines, MaxLines)
    \/ ParseFileReturn
    \/ Format

SpecSingleton == Init /\ [][NextSingleton]_vars

NextTransform ==
    \/ ParseFileStep(TransformLines, MaxTransformLines)
    \/ ParseFileReturn
    \/ Format

SpecTransform == Init /\ [][NextTransform]_vars

NextCoord ==
    \/ ParseFileStep(CoordLines, MaxLines)
    \/ ParseFileReturn
    \/ Format

SpecCoord == Init /\ [][NextCoord]_vars

NextMisc ==
    \/ ParseFileStep(MiscLines, MaxLines)
    \/ ParseFileReturn
    \/ Format

SpecMisc == Init /\ [][NextMisc]_vars

NextLink ==
    \/ ParseFileStep(LinkLines, MaxLines)
    \/ ParseFileReturn
    \/ Format
    \/ FormatLink

SpecLink == Init /\ [][NextLink]_vars

NextSection ==
    \/ ParseFileStep(SectionLines, MaxLines)
    \/ ParseFileReturn
    \/ Format

SpecSection == Init /\ [][NextSection]_vars

\* entry.check_master() on the parsed Entry, before or after str(entry).
CheckMaster ==
    /\ status = "returned"
    /\ call = None
    /\ \E res \in {check_master(entry)} :
           /\ entry' = res.entry
           /\ call' = Some([op |-> "check_master", exc |-> res.exc,
                            log |-> res.log])
    /\ UNCHANGED << doc, status, err, out >>

\* REMARK, HET, ATOM and TER records and MASTER records declaring none or
\* one of them.
MasterLines ==
    { NumberedLine("REMARK", "  2", Blank),
      NumberedLine("HET", "  1", Blank),
      CoordLine("ATOM", "  1", "  1"),
      [CoordLine("ATOM", "  2", "  1") EXCEPT !.elem = " H"],
      CoordLine("TER", "  3", "  1"),
      MasterLine("  0", "  0", "  1", "  0"),
      MasterLine("  1", "  0", "  1", "  1") }

NextMaster ==
    \/ ParseFileStep(MasterLines, MaxLines)
    \/ ParseFileReturn
    \/ Format
    \/ CheckMaster

SpecMaster == Init /\ [][NextMaster]_vars

\* atom_format(record) on a record whose name and element were drawn at
\* the start.
AtomFormat ==
    /\ call # None
    /\ call[1].op = "atom_format"
    /\ call[1].result = None
    /\ call' = Some([call[1] EXCEPT
                        !.result = Some(atom_format(call[1].name,
                                                    call[1].element))])
    /\ UNCHANGED << entry, doc, status, err, out >>

\* The characters of atom names and element symbols.
NameChars == {"C", "A", "a"}

\* The strings of at most n characters.
StringsUpTo(n) == UNION { [1..k -> NameChars] : k \in 0..n }

\* The element symbol occupies two columns.
ElementColumns == 2

InitAtomName ==
    /\ entry = Entry_init
    /\ doc = << >>
    /\ status = "returned"
    /\ err = None
    /\ out = None
    /\ call \in { Some([op |-> "atom_format", name |-> name,
                        element |-> element, result |-> None]) :
                     name \in StringsUpTo(MaxNameLen),
                     element \in StringsUpTo(ElementColumns) }

NextAtomName == AtomFormat

SpecAtomName == InitAtomName /\ [][NextAtomName]_vars

\* date_parse(date_string) on a string drawn at the start.
DateParse ==
    /\ call # None
    /\ call[1].op = "date_parse"
    /\ call[1].exc = "pending"
    /\ \E res \in {date_parse(call[1].date_string)} :
           call' = Some([call[1] EXCEPT !.date = res.date,
                                        !.exc = res.exc])
    /\ UNCHANGED << entry, doc, status, err, out >>

\* Day, month and year tokens and separators, well-formed and not.
DayTokens ==
    { << "0", "8" >>, << "8" >>, << " ", "8" >>, << "2", "9" >>,
      << "3", "1" >>, << "3", "2" >>, << "0", "0" >>, << "x", "8" >>,
      << >> }

MonthTokens ==
    { << "M", "A", "R" >>, << "m", "a", "r" >>, << "M", "a", "r" >>,
      << "F", "E", "B" >>, << "J", "U", "N" >>, << "X", "X", "X" >>,
      << "M", "A" >>, << "M", "A", "R", "C", "H" >>, << "0", "3" >> }

YearTokens ==
    { << "0", "7" >>, << "0", "8" >>, << "7", "0" >>,
      << "2", "0", "0", "7" >>, << "7" >>, << "0", "7", " " >>, << >> }

Separators == { << "-" >>, << "/" >>, << >> }

DateStrings ==
    { day \o sep1 \o month \o sep2 \o year :
        day \in DayTokens, sep1 \in Separators, month \in MonthTokens,
        sep2 \in Separators, year \in YearTokens }

InitDate ==
    /\ entry = Entry_init
    /\ doc = << >>
    /\ status = "returned"
    /\ err = None
    /\ out = None
    /\ call \in { Some([op |-> "date_parse", date_string |-> cs,
                        date |-> None, exc |-> "pending"]) :
                     cs \in DateStrings }

NextDate == DateParse

SpecDate == InitDate /\ [][NextDate]_vars

\* A line of an ID-code list record: continuation field and ID-code slots.
IdCodeLine(name, cont, ids) ==
    [BlankLine(name) EXCEPT !.cont = cont, !.date = GoodDate,
                            !.text = "1ABC", !.ids = ids]

\* First and continuation lines of OBSLTE, SPRSDE and SPLIT.
IdCodeLines ==
    { IdCodeLine("OBSLTE", Blank, << "2DEF", "3GHI" >>),
      IdCodeLine("OBSLTE", "  2", << "4JKL" >>),
      IdCodeLine("SPRSDE", Blank, << "2DEF", "3GHI" >>),
      IdCodeLine("SPRSDE", "  2", << "4JKL" >>),
      [BlankLine("SPLIT") EXCEPT !.ids = << "1ABC", "2DEF" >>],
      [BlankLine("SPLIT") EXCEPT !.cont = "  2", !.ids = << "3GHI" >>] }

NextIdCodes ==
    \/ ParseFileStep(IdCodeLines, MaxLines)
    \/ ParseFileReturn
    \/ Format

SpecIdCodes == Init /\ [][NextIdCodes]_vars

\* A REVDAT line of modification num with its detail tokens.
RevdatLine(num, cont, ids) ==
    [BlankLine("REVDAT") EXCEPT !.num = num, !.cont = cont,
                                !.date = GoodDate, !.text = "1ABC",
                                !.opt = "  1", !.ids = ids]

\* The lines of the records whose formatters chunk a list with grouper.
ChunkedLines ==
    IdCodeLines
    \cup { RevdatLine("  1", Blank, << "ATOM", "HELIX" >>),
           [BlankLine("SEQRES") EXCEPT !.cont = "  1", !.chain = "A",
                                       !.num = "  2",
                                       !.ids = << "ALA", "GLY" >>] }

NextChunked ==
    \/ ParseFileStep(ChunkedLines, MaxLines)
    \/ ParseFileReturn
    \/ Format

SpecChunked == Init /\ [][NextChunked]_vars

\* REVDAT lines of two modifications, the first with five detail tokens
\* on two lines, and a line with an unreadable modification number.
RevdatLines ==
    { RevdatLine("  1", Blank, << "ATOM", "HELIX", "SHEET" >>),
      RevdatLine("  1", "  2", << "SITE", "LINK" >>),
      RevdatLine("  2", Blank, << "REMARK" >>),
      [RevdatLine("  2", "  2", << >>) EXCEPT !.date = BlankDate,
                                              !.opt = Blank],
      RevdatLine("  X", Blank, << "ATOM" >>),
      Line("TITLE", Blank, "a") }

NextRevdat ==
    \/ ParseFileStep(RevdatLines, MaxLines)
    \/ ParseFileReturn
    \/ Format

SpecRevdat == Init /\ [][NextRevdat]_vars

\* A SITE line of a named site: declared number of residues and the
\* residue names the line lists.
NamedSiteLine(num, site_id, num_res, names) ==
    [BlankLine("SITE") EXCEPT !.num = num, !.text = site_id,
                              !.seq = num_res, !.ids = names]

\* Site AC1 lists three residues on two lines and declares three, site
\* AC2 lists and declares one, site AC3 lists one and declares two.
SiteLines ==
    { NamedSiteLine("  1", "AC1", "  3", << "ALA", "GLY" >>),
      NamedSiteLine("  2", "AC1", "  3", << "SER" >>),
      NamedSiteLine("  1", "AC2", "  1", << "HIS" >>),
      NamedSiteLine("  1", "AC3", "  2", << "CYS" >>),
      NamedSiteLine("  1", "AC2", "  X", << "HIS" >>),
      Line("TITLE", Blank, "a") }

NextSite ==
    \/ ParseFileStep(SiteLines, MaxLines)
    \/ ParseFileReturn
    \/ Format

SpecSite == Init /\ [][NextSite]_vars

\* ------------------------------------------------------------------------
\* pdb_old_format/pdb.py: read_file and the line parsers it registers
\* ------------------------------------------------------------------------
\* The class names register_line_parser has put into LINE_PARSERS.
LINE_PARSERS ==
    {"END", "ENDMDL", "SIGUIJ", "SIGATM", "TVECT", "SLTBRG", "HYDBND", "TURN"}

NoAttribute == "AttributeError: object has no attribute 'original_text'"

OutOfRange == "IndexError: string index out of range"

UnknownKey == "KeyError"

\* END and ENDMDL define no __init__: BaseRecord.__init__ runs.
END_init(name) == [kind |-> name, original_text |-> << >>]

\* TVECT.__init__ sets its own fields and does not call
\* BaseRecord.__init__: the object has no original_text.
TVECT_init ==
    [kind |-> "TVECT", serial |-> None, trans1 |-> None, trans2 |-> None,
     trans3 |-> None, text |-> None]

\* TURN.__init__, likewise.
TURN_init ==
    [kind |-> "TURN", seq |-> None, turn_id |-> None, init_res_name |-> None,
     init_chain_id |-> None, init_seq_num |-> None, end_res_name |-> None,
     end_chain_id |-> None, end_seq_num |-> None, comment |-> None]

\* super().parse_line(line) on an object of one of these classes:
\* self.original_text.append(...) needs the attribute.
Super_parse_line(r, line) ==
    IF "original_text" \in DOMAIN r
    THEN [rec |-> BaseRecord_parse_line(r, line), exc |-> NoExc]
    ELSE [rec |-> r, exc |-> NoAttribute]

\* The length of a TURN line after line.strip(): the column of its last
\* non-blank field (the insertion-code columns 25 and 36 are blank in the
\* vocabulary).
TurnLength(line) ==
    IF line.text # "" THEN 41
    ELSE IF Strip(line.seq2) # "" THEN 35
    ELSE IF line.chain2 # "" THEN 31
    ELSE IF Strip(line.seq) # "" THEN 24
    ELSE IF line.chain # "" THEN 20
    ELSE IF line.ids # << >> THEN 14
    ELSE IF Strip(line.num) # "" THEN 10
    ELSE 4

\* line[i] for a 0-based index i raises when the stripped line is no
\* longer than i.
IndexOk(line, i) == i < TurnLength(line)

\* TVECT.parse_line: serial from columns 8-10, the three components as
\* floats.
TVECT_parse_line(r, line) ==
    LET r1 == Super_parse_line(r, line)
    IN  IF r1.exc # NoExc THEN r1
        ELSE IF ~ IntOk(line.num) \/ ~ FloatOk(line.opt)
                \/ ~ FloatOk(line.seq) \/ ~ FloatOk(line.seq2)
        THEN [rec |-> r1.rec, exc |-> ConvError]
        ELSE [rec |-> [r1.rec EXCEPT !.serial = Some(PyInt(line.num)),
                                     !.trans1 = Some(PyFloat(line.opt)),
                                     !.trans2 = Some(PyFloat(line.seq)),
                                     !.trans3 = Some(PyFloat(line.seq2)),
                                     !.text = Some(line.text)],
              exc |-> NoExc]

\* TURN.parse_line: the fields in the order they are read; the chain
\* identifiers and insertion codes are read as line[19], line[24],
\* line[30] and line[35].
TURN_parse_line(r, line) ==
    LET r1 == Super_parse_line(r, line)
    IN  IF r1.exc # NoExc THEN r1
        ELSE IF ~ IntOk(line.num) THEN [rec |-> r1.rec, exc |-> ConvError]
        ELSE IF ~ IndexOk(line, 19) THEN [rec |-> r1.rec, exc |-> OutOfRange]
        ELSE IF ~ IntOk(line.seq) THEN [rec |-> r1.rec, exc |-> ConvError]
        ELSE IF ~ IndexOk(line, 24) \/ ~ IndexOk(line, 30)
        THEN [rec |-> r1.rec, exc |-> OutOfRange]
        ELSE IF ~ IntOk(line.seq2) THEN [rec |-> r1.rec, exc |-> ConvError]
        ELSE IF ~ IndexOk(line, 35) THEN [rec |-> r1.rec, exc |-> OutOfRange]
        ELSE [rec |-> [r1.rec EXCEPT !.seq = Some(PyInt(line.num)),
                                     !.turn_id = Some(line.ids),
                                     !.init_chain_id = Some(line.chain),
                                     !.init_seq_num = Some(PyInt(line.seq)),
                                     !.end_chain_id = Some(line.chain2),
                                     !.end_seq_num = Some(PyInt(line.seq2)),
                                     !.comment = Some(line.text)],
              exc |-> NoExc]

\* klass = LINE_PARSERS[record]; obj = klass(); obj.parse_line(line)
LineParse(line) ==
    CASE line.name \notin LINE_PARSERS -> [rec |-> None, exc |-> UnknownKey]
      [] line.name \in {"END", "ENDMDL"} ->
            Super_parse_line(END_init(line.name), line)
      [] line.name = "TVECT" -> TVECT_parse_line(TVECT_init, line)
      [] line.name = "TURN" -> TURN_parse_line(TURN_init, line)

\* "record in errlist"
InList(x, xs) == \E i \in 1..Len(xs) : xs[i] = x

\* except (KeyError, ValueError)
Caught(exc) == exc \in {UnknownKey, ConvError}

\* The body of the loop of read_file for one non-blank line; r holds
\* pdblist, errlist and the tolerant argument.
read_line(r, line) ==
    IF InList(line.name, r.errlist) THEN r
    ELSE LET res == LineParse(line)
         IN  IF res.exc = NoExc
             THEN [r EXCEPT !.pdblist = Append(@, res.rec)]
             ELSE IF Caught(res.exc) /\ line.name \notin {"HETATM", "ATOM"}
                     /\ r.tolerant
             THEN [r EXCEPT !.errlist = Append(@, line.name)]
             ELSE [r EXCEPT !.exc = res.exc]

\* read_file(file_, tolerant) before the first readline.
read_file_init(tolerant) ==
    [op |-> "read_file", tolerant |-> tolerant, pdblist |-> << >>,
     errlist |-> << >>, exc |-> NoExc]

\* One pass of the loop of read_file on a non-blank line; the first pass
\* fixes the tolerant argument of the call.
ReadFileStep(lines, limit) ==
    /\ status = "parsing"
    /\ Len(doc) < limit
    /\ \E line \in lines :
         \E tolerant \in IF call = None THEN BOOLEAN ELSE {call[1].tolerant} :
           \E res \in {read_line(IF call = None THEN read_file_init(tolerant)
                                 ELSE call[1], line)} :
              /\ doc' = Append(doc, line)
              /\ call' = Some(res)
              /\ status' = IF res.exc = NoExc THEN "parsing" ELSE "raised"
    /\ UNCHANGED << entry, err, out >>

\* readline() gives the empty string, at the end of the file or on a
\* blank line: read_file returns (pdblist, errlist).
ReadFileReturn ==
    /\ status = "parsing"
    /\ status' = "returned"
    /\ \E tolerant \in IF call = None THEN BOOLEAN ELSE {call[1].tolerant} :
          call' = IF call = None THEN Some(read_file_init(tolerant)) ELSE call
    /\ UNCHANGED << entry, doc, err, out >>

TvectLine(serial) ==
    [BlankLine("TVECT") EXCEPT !.num = serial, !.opt = "  1", !.seq = "  2",
                               !.seq2 = "  3"]

TurnLine(seq, end_seq, comment) ==
    [BlankLine("TURN") EXCEPT !.num = seq, !.ids = << "S1A", "GLY", "GLN" >>,
                              !.chain = "A", !.seq = "  1", !.chain2 = "A",
                              !.seq2 = end_seq, !.text = comment]

\* Lines a file handed to read_file can hold: END and ENDMDL, TVECT and
\* TURN lines that convert and that do not, a TURN line without a comment,
\* and lines of types no parser is registered for.
ReadLines ==
    { BlankLine("END"), BlankLine("ENDMDL"),
      TvectLine("  1"), TvectLine("  X"),
      TurnLine("  1", "  2", "a"), TurnLine("  1", "  2", ""),
      TurnLine("  X", "  2", "a"),
      Line("HEADER", Blank, "a"), Line("ATOM", Blank, "a") }

NextRead ==
    \/ ReadFileStep(ReadLines, MaxLines)
    \/ ReadFileReturn

SpecRead == Init /\ [][NextRead]_vars

\* ------------------------------------------------------------------------
\* Properties
\* ------------------------------------------------------------------------
\* A step of the parse loop took a line from the file.
LineTaken == Len(doc') = Len(doc) + 1

\* The line the parse loop took last.
LastLine == doc[Len(doc)]

\* The lines of a sequence that bear a record name.
LinesNamed(ls, name) == SelectSeq(ls, LAMBDA l : l.name = name)

\* Position of a record name in the order the PDB format prescribes.
Rank(name) ==
    CASE name = "HEADER" -> 1
      [] name = "OBSLTE" -> 2
      [] name = "TITLE" -> 3
      [] name = "SPLIT" -> 4
      [] name = "CAVEAT" -> 5
      [] name = "COMPND" -> 6
      [] name = "SOURCE" -> 7
      [] name = "KEYWDS" -> 8
      [] name = "EXPDTA" -> 9
      [] name = "MDLTYP" -> 11
      [] name = "AUTHOR" -> 12
      [] name = "SPRSDE" -> 14
      [] name = "REMARK" -> 16
      [] name = "END" -> 99

\* A syntactically valid document of title-section lines: the records are
\* in the prescribed order, the k-th line of a record carries continuation
\* number k (none for the first), HEADER occurs at most once, the
\* mandatory AUTHOR record is present and END closes the document.
ValidDoc(d) ==
    /\ Len(d) > 0
    /\ d[Len(d)].name = "END"
    /\ \E i \in 1..Len(d) : d[i].name = "AUTHOR"
    /\ \A i, j \in 1..Len(d) : i < j => Rank(d[i].name) <= Rank(d[j].name)
    /\ \A i \in 1..Len(d) :
         LET k == Cardinality({j \in 1..i : d[j].name = d[i].name})
         IN  /\ d[i].name \in {"HEADER", "END"} => k = 1
             /\ d[i].name # "REMARK" =>
                  d[i].cont = IF k = 1 THEN Blank ELSE FmtR3(k)

\* C1: formatting the Entry parsed from a syntactically valid document
\* gives back the document, line for line.
C1_RoundTrip ==
    (out # None /\ ValidDoc(doc)) =>
        (out[1].exc = NoExc /\ out[1].lines = doc)

\* A valid document that does come back unchanged.
C1_RoundTripSeen ==
    out # None /\ ValidDoc(doc) /\ Len(doc) = 3 /\ out[1].lines = doc

SingletonNames == {"HEADER", "NUMMDL", "CRYST1", "MASTER"}

SingletonSlot(name) ==
    CASE name = "HEADER" -> "_header"
      [] name = "NUMMDL" -> "_num_model"
      [] name = "CRYST1" -> "_unit_cell"
      [] name = "MASTER" -> "_master"

\* C2: a HEADER, NUMMDL, CRYST1 or MASTER line parsed into an Entry that
\* already holds a record of that type raises the already-exists error and
\* leaves the Entry as it was.
C2_DuplicateRaises ==
    [][\A name \in SingletonNames :
          (/\ LineTaken
           /\ doc'[Len(doc')].name = name
           /\ entry[SingletonSlot(name)] # None)
          => (/\ status' = "raised"
              /\ err'[1].cause = AlreadyExists
              /\ err'[1].line = doc'[Len(doc')]
              /\ entry' = entry)]_vars

\* A second MASTER line raised although a TITLE line came in between.
C2_Witness ==
    /\ status = "raised"
    /\ Len(doc) = 3
    /\ doc[1].name = "MASTER" /\ doc[2].name = "TITLE"
    /\ doc[3].name = "MASTER"
    /\ err[1].cause = AlreadyExists

TransformFamilies ==
    { {"ORIGX1", "ORIGX2", "ORIGX3"}, {"SCALE1", "SCALE2", "SCALE3"},
      {"MTRIX1", "MTRIX2", "MTRIX3"} }

FamilyCount(d, family) ==
    Cardinality({i \in 1..Len(d) : d[i].name \in family})

\* C3: the fourth line of one transform family raises; the error is the
\* too-many-transforms error whenever the line itself converts.
C3_FourthTransformRaises ==
    [][\A family \in TransformFamilies :
          (/\ LineTaken
           /\ doc'[Len(doc')].name \in family
           /\ FamilyCount(doc, family) = 3)
          => (/\ status' = "raised"
              /\ FloatOk(doc'[Len(doc')].num) => err'[1].cause = TooMany)]_vars

\* Four ORIGXn lines were parsed and the fourth raised too-many.
C3_Witness ==
    /\ status = "raised"
    /\ Len(doc) = 4
    /\ FamilyCount(doc, {"ORIGX1", "ORIGX2", "ORIGX3"}) = 4
    /\ err[1].cause = TooMany

\* C4: the Entry never holds more than three records of a transform
\* family.
C4_AtMostThree ==
    /\ Len(entry._orig_transform) <= 3
    /\ Len(entry._frac_transform) <= 3
    /\ Len(entry._noncrystal_transform) <= 3

\* The record names the dispatcher has a branch for.
RecognizedNames ==
    {"HEADER", "OBSLTE", "TITLE", "SPLIT", "CAVEAT", "COMPND", "SOURCE",
     "KEYWDS", "EXPDTA", "NUMMDL", "MDLTYP", "AUTHOR", "REVDAT", "SPRSDE",
     "JRNL", "REMARK", "DBREF", "DBREF1", "DBREF2", "SEQADV", "SEQRES",
     "HET", "HETNAM", "HETSYN", "FORMUL", "HELIX", "SHEET", "SSBOND",
     "LINK", "CISPEP", "SITE", "CRYST1", "ORIGX1", "ORIGX2", "ORIGX3",
     "SCALE1", "SCALE2", "SCALE3", "MTRIX1", "MTRIX2", "MTRIX3", "MODEL",
     "ATOM", "ANISOU", "TER", "HETATM", "CONECT", "MASTER", "ENDMDL", "END"}

\* C5: a line with an unrecognized record name makes parse_file raise an
\* error that holds the text of the line and the column ruler.
C5_UnknownNameRaises ==
    [][(LineTaken /\ doc'[Len(doc')].name \notin RecognizedNames)
          => (/\ status' = "raised"
              /\ err' = Some([ref |-> REF_LINE, line |-> doc'[Len(doc')],
                              cause |-> Unexpected]))]_vars

\* An unrecognized name was met after two lines that parsed.
C5_Witness ==
    /\ status = "raised"
    /\ Len(doc) = 3
    /\ LastLine.name = "FOOBAR"
    /\ err[1].cause = Unexpected

\* C6: when the dispatch of a line fails, parse_file raises an error that
\* carries that line and the ruler, and from then on no line is taken from
\* the file and the Entry does not change.
C6_StopsAtFailingLine ==
    [][/\ (LineTaken /\ Entry_parse_line(entry, doc'[Len(doc')]).exc # NoExc)
            => (/\ status' = "raised"
                /\ err' # None
                /\ err'[1].line = doc'[Len(doc')]
                /\ err'[1].ref = REF_LINE)
       /\ status = "raised" => (entry' = entry /\ doc' = doc)]_vars

\* The second line failed to convert with room left for another line.
C6_Witness ==
    /\ status = "raised"
    /\ Len(doc) = 2
    /\ Len(doc) < MaxLines
    /\ err[1].cause = ConvError
    /\ err[1].line = LastLine

\* Text that is neither blank nor a number.
BadNumber(s) == Strip(s) # "" /\ ~IntOk(s)

\* C7: a line of a recognized record with non-numeric text in one of its
\* numeric columns fails to parse.
C7_BadColumnFails ==
    [][(/\ LineTaken
        /\ doc'[Len(doc')].name \in RecognizedNames
        /\ BadNumber(doc'[Len(doc')].num) \/ BadNumber(doc'[Len(doc')].opt))
          => status' = "raised"]_vars

\* C8: in the formatted text of every continuation-bearing record the
\* first line has no continuation number and the i-th line has number i,
\* the lines standing in the order their fragments were parsed, whatever
\* numbers the parsed lines carried.
C8_Renumbered ==
    (out # None /\ out[1].exc = NoExc) =>
        \A name \in ContinuationNames :
            LET written == LinesNamed(out[1].lines, name)
                parsed == LinesNamed(doc, name)
            IN  /\ Len(written) = Len(parsed)
                /\ \A i \in 1..Len(written) :
                     /\ IF i = 1 THEN written[i].cont = Blank
                        ELSE IntOk(written[i].cont)
                             /\ PyInt(written[i].cont) = i
                     /\ name # "CAVEAT" => written[i].text = parsed[i].text

\* Three lines of one record numbered 3, none, 3 were parsed and formatted.
C8_Witness ==
    /\ out # None
    /\ Len(doc) = 3
    /\ doc[1].name = doc[2].name /\ doc[2].name = doc[3].name
    /\ doc[1].cont = "  3" /\ doc[2].cont = Blank /\ doc[3].cont = "  3"
    /\ Len(out[1].lines) >= 3

AccumulatorNames ==
    {"TITLE", "COMPND", "SOURCE", "KEYWDS", "AUTHOR", "CAVEAT", "OBSLTE",
     "SPLIT", "MDLTYP", "EXPDTA", "SPRSDE"}

AccumulatorSlot(name) ==
    CASE name = "TITLE" -> "_title"
      [] name = "COMPND" -> "_compound"
      [] name = "SOURCE" -> "_source"
      [] name = "KEYWDS" -> "_keyword"
      [] name = "AUTHOR" -> "_author"
      [] name = "CAVEAT" -> "_caveat"
      [] name = "OBSLTE" -> "_obsolete"
      [] name = "SPLIT" -> "_split"
      [] name = "MDLTYP" -> "_model_type"
      [] name = "EXPDTA" -> "_experimental_data"
      [] name = "SPRSDE" -> "_supersedes"

\* The lines an instance has been fed: its original_text, or for SPLIT
\* (which keeps none) the ID codes it has collected.
Fed(name, r) == IF name = "SPLIT" THEN r.id_codes ELSE r.original_text

\* What feeding one line adds to Fed.
Feeds(name, line) ==
    IF name = "SPLIT" THEN NonBlank(line.ids) ELSE << line >>

\* C9: for each accumulating record type, the first line of the type
\* stores one newly constructed instance, every later line of the type is
\* fed to that very instance, and lines of other types leave it alone.
C9_SameInstance ==
    [][LineTaken =>
         \A name \in AccumulatorNames :
            LET slot == AccumulatorSlot(name)
                line == doc'[Len(doc')]
            IN  IF line.name # name THEN entry'[slot] = entry[slot]
                ELSE /\ entry'[slot] # None
                     /\ IF entry[slot] = None
                        THEN /\ entry'[slot][1].inst = entry.ids
                             /\ Fed(name, entry'[slot][1]) = Feeds(name, line)
                        ELSE /\ entry'[slot][1].inst = entry[slot][1].inst
                             /\ Fed(name, entry'[slot][1])
                                  = Fed(name, entry[slot][1])
                                    \o Feeds(name, line)]_vars

\* Two EXPDTA lines around a REMARK line reached one instance.
C9_Witness ==
    /\ status = "parsing"
    /\ Len(doc) = 3
    /\ doc[1].name = "EXPDTA" /\ doc[2].name = "REMARK"
    /\ doc[3].name = "EXPDTA"
    /\ entry._experimental_data # None
    /\ Len(entry._experimental_data[1].technique) = 2

\* The Models a sequence of parsed lines describes: MODEL opens one,
\* a coordinate line goes to the one opened last, or to a first Model
\* that no MODEL line opened.
RECURSIVE ExpectedModels(_)
ExpectedModels(d) ==
    IF d = << >> THEN << >>
    ELSE LET before == ExpectedModels(SubSeq(d, 1, Len(d) - 1))
             line == d[Len(d)]
         IN  IF line.name = "MODEL"
             THEN Append(before, [opened_by |-> Some(PyInt(line.num)),
                                  members |-> << >>])
             ELSE IF line.name \in {"ATOM", "ANISOU", "TER", "HETATM"}
             THEN IF before = << >>
                  THEN << [opened_by |-> None, members |-> << line >>] >>
                  ELSE [before EXCEPT ![Len(before)].members =
                                          Append(@, line)]
             ELSE before

\* The Models of the Entry: the number of the MODEL line that opened each
\* one and the line each of its records was parsed from.
HeldModels(e) ==
    [i \in 1..Len(e._model) |->
        [opened_by |-> e._model[i].serial,
         members |-> [j \in 1..Len(e._model[i].records) |->
                         e._model[i].records[j].original_text[1]]]]

\* C10: while parsing succeeds, the Entry holds one Model per MODEL line
\* (plus a first one when coordinate lines precede every MODEL line) and
\* each coordinate line is in the Model that was current when it was read.
C10_CurrentModel ==
    status # "raised" => HeldModels(entry) = ExpectedModels(doc)

\* A coordinate line went to the second of two Models.
C10_Witness ==
    /\ status = "parsing"
    /\ Len(doc) = 3
    /\ doc[1].name = "MODEL" /\ doc[2].name = "MODEL"
    /\ doc[3].name = "HETATM"
    /\ Len(entry._model) = 2
    /\ Len(entry._model[1].records) = 0
    /\ Len(entry._model[2].records) = 1

CoordinateNames == {"ATOM", "ANISOU", "TER", "HETATM"}

\* The number of lines of a sequence whose record name is in a set.
CountNamed(d, names) == Cardinality({i \in 1..Len(d) : d[i].name \in names})

\* A coordinate line stands before every MODEL line of the sequence.
CoordinateFirst(d) ==
    \E i \in 1..Len(d) :
        /\ d[i].name \in CoordinateNames
        /\ \A j \in 1..i : d[j].name # "MODEL"

\* C11 as stated: after a successful parse the Entry holds one Model per
\* MODEL line, or exactly one when the document has coordinate lines and
\* no MODEL line.
C11_OnePerModelLine ==
    status = "returned" =>
        /\ CountNamed(doc, {"MODEL"}) > 0
              => Len(entry._model) = CountNamed(doc, {"MODEL"})
        /\ (CountNamed(doc, {"MODEL"}) = 0
             /\ CountNamed(doc, CoordinateNames) > 0)
              => Len(entry._model) = 1

\* C11 (amended): after a successful parse the Entry holds one Model per
\* MODEL line, plus one when a coordinate line precedes every MODEL line;
\* and the Model list is not empty once a coordinate line has been parsed.
C11_ModelCount ==
    /\ status = "returned" =>
          Len(entry._model) = CountNamed(doc, {"MODEL"})
                              + (IF CoordinateFirst(doc) THEN 1 ELSE 0)
    /\ CountNamed(doc, CoordinateNames) > 0 => Len(entry._model) > 0

\* A coordinate line, a MODEL line and a coordinate line were parsed: the
\* Entry holds the implicit Model and the one the MODEL line opened.
C11_Witness ==
    /\ status = "returned"
    /\ Len(doc) = 3
    /\ doc[1].name = "ATOM" /\ doc[2].name = "MODEL" /\ doc[3].name = "TER"
    /\ Len(entry._model) = 2

\* The section of the format a record name belongs to: 1 Title, 2 Primary
\* Structure, 3 Heterogen, 4 Secondary Structure, 5 Connectivity
\* Annotation, 6 Miscellaneous, 7 Crystallographic and Coordinate
\* Transformation, 8 Coordinate, 9 Connectivity, 10 Bookkeeping.
Section(name) ==
    CASE name \in {"HEADER", "OBSLTE", "TITLE", "SPLIT", "CAVEAT", "COMPND",
                   "SOURCE", "KEYWDS", "EXPDTA", "NUMMDL", "MDLTYP",
                   "AUTHOR", "REVDAT", "SPRSDE", "JRNL", "REMARK"} -> 1
      [] name \in {"DBREF", "DBREF1", "DBREF2", "SEQADV", "SEQRES"} -> 2
      [] name \in {"HET", "HETNAM", "HETSYN", "FORMUL"} -> 3
      [] name \in {"HELIX", "SHEET"} -> 4
      [] name \in {"SSBOND", "LINK", "CISPEP"} -> 5
      [] name = "SITE" -> 6
      [] name \in {"CRYST1", "ORIGX1", "ORIGX2", "ORIGX3", "SCALE1",
                   "SCALE2", "SCALE3", "MTRIX1", "MTRIX2", "MTRIX3"} -> 7
      [] name \in {"MODEL", "ATOM", "ANISOU", "TER", "HETATM", "ENDMDL"} -> 8
      [] name = "CONECT" -> 9
      [] name = "MASTER" -> 10
      [] name = "END" -> 11
      [] OTHER -> 0

\* The lines of a text that bear a record name, in order.
Named(lines) == SelectSeq(lines, LAMBDA l : l.name # "")

\* C12: the text of an Entry lists its records section by section in the
\* fixed order, whatever the order the lines were parsed in, and its last
\* line is END.
C12_SectionOrder ==
    (out # None /\ out[1].exc = NoExc) =>
        LET text == out[1].lines
        IN  /\ text[Len(text)] = BlankLine("END")
            /\ \A i, j \in 1..Len(Named(text)) :
                  i < j => Section(Named(text)[i].name)
                             <= Section(Named(text)[j].name)

\* The record name each record class of a Model writes.
WrittenName(kind) ==
    CASE kind = "Atom" -> "ATOM"
      [] kind = "HeterogenAtom" -> "HETATM"
      [] kind = "TemperatureFactor" -> "ANISOU"
      [] kind = "ChainTerminus" -> "TER"

\* The record names of the lines of a formatted Model: a MODEL line when
\* the Model has a number, then its records; a Model with neither is the
\* empty string, which the join turns into one empty line.
ModelNames(m) ==
    LET names == (IF m.serial # None /\ m.serial # Some(0)
                  THEN << "MODEL" >> ELSE << >>)
                 \o [j \in 1..Len(m.records) |->
                        WrittenName(m.records[j].kind)]
    IN  IF names = << >> THEN << "" >> ELSE names

\* The positions of the ENDMDL lines of a text, in order.
RECURSIVE EndPositions(_, _)
EndPositions(text, from) ==
    IF from > Len(text) THEN << >>
    ELSE IF text[from].name = "ENDMDL"
    THEN << from >> \o EndPositions(text, from + 1)
    ELSE EndPositions(text, from + 1)

\* C13: when the Entry holds more than one Model, the text holds one
\* ENDMDL line per Model, and the lines of the i-th Model stand between
\* the ENDMDL line of the Model before it and its own ENDMDL line.
C13_EndmdlAfterEachModel ==
    (out # None /\ out[1].exc = NoExc /\ Len(entry._model) > 1) =>
        LET text == out[1].lines
            ends == EndPositions(text, 1)
        IN  /\ Len(ends) = Len(entry._model)
            /\ \A i \in 1..Len(ends) :
                  LET names == ModelNames(entry._model[i])
                      first == ends[i] - Len(names)
                  IN  /\ first >= 1
                      /\ i > 1 => first = ends[i - 1] + 1
                      /\ \A k \in 1..Len(names) :
                            text[first + k - 1].name = names[k]

\* Two Models, the second holding a record, were formatted.
C13_Witness ==
    /\ out # None /\ out[1].exc = NoExc
    /\ Len(doc) = 3
    /\ doc[1].name = "MODEL" /\ doc[2].name = "MODEL"
    /\ doc[3].name = "ATOM"
    /\ Len(entry._model) = 2
    /\ out[1].lines[Len(out[1].lines) - 1].name = "ENDMDL"

\* C14: str() of a LINK record whose is_element1 or is_element2 has not
\* been set by the annotation pass raises and produces no text.
C14_UnresolvedLinkFails ==
    (call # None /\ call[1].op = "Link.__str__"
     /\ (call[1].rec.is_element1 = None \/ call[1].rec.is_element2 = None))
        => (call[1].exc # NoExc /\ call[1].lines = << >>)

\* str(entry) resolved the first atom of a LINK record and failed on the
\* second; str() of that record then raised.
C14_Witness ==
    /\ call # None /\ call[1].op = "Link.__str__"
    /\ call[1].rec.is_element1 # None
    /\ call[1].rec.is_element2 = None
    /\ call[1].exc = NotAnnotated

\* No Atom or HeterogenAtom record of the first Model has this chain,
\* residue number and name.
Missing(e, chain_id, res_seq, name) ==
    ~\E j \in 1..Len(e._model[1].records) :
        /\ e._model[1].records[j].kind \in {"Atom", "HeterogenAtom"}
        /\ e._model[1].records[j].chain_id = Some(chain_id)
        /\ e._model[1].records[j].res_seq = Some(res_seq)
        /\ e._model[1].records[j].name = Some(name)

Missing1(e, r) == Missing(e, r.chain_id1[1], r.res_seq1[1], r.name1[1])

Missing2(e, r) == Missing(e, r.chain_id2[1], r.res_seq2[1], r.name2[1])

\* C15: when str(entry) meets a LINK record one of whose atoms is not in
\* the first Model, it raises an error that names the atom, the residue
\* and the chain of the first atom it did not find.
C15_LookupErrorNamesAtom ==
    (out # None /\ Len(entry._model) > 0) =>
        \A i \in 1..Len(entry._link) :
            (\A j \in 1..(i - 1) : /\ ~Missing1(entry, entry._link[j])
                                   /\ ~Missing2(entry, entry._link[j]))
            => LET r == entry._link[i]
               IN  /\ Missing1(entry, r) =>
                         out[1].exc = NoAtom1(r.name1[1], r.res_seq1[1],
                                              r.chain_id1[1])
                   /\ (~Missing1(entry, r) /\ Missing2(entry, r)) =>
                         out[1].exc = NoAtom1(r.name2[1], r.res_seq2[1],
                                              r.chain_id2[1])

\* The state of an Entry apart from the is_element1 and is_element2 fields
\* of its LINK records (ids is the allocator of object identities, not a
\* field of the Entry).
ApartFromLinkFlags(e) ==
    [e EXCEPT !.ids = 0,
              !._link = [i \in 1..Len(e._link) |->
                            [e._link[i] EXCEPT !.is_element1 = None,
                                               !.is_element2 = None]]]

\* C16: str(entry) changes nothing of the Entry but the is_element1 and
\* is_element2 fields of its LINK records.
C16_OnlyLinkFlagsChange ==
    [][(out = None /\ out' # None)
          => ApartFromLinkFlags(entry') = ApartFromLinkFlags(entry)]_vars

\* The MASTER line of a sequence of lines declares, in the column of a
\* record name, another number than the sequence holds lines of that name.
DeclaredDiffers(d) ==
    \E i \in 1..Len(d) :
        /\ d[i].name = "MASTER"
        /\ \/ PyInt(d[i].num) # CountNamed(d, {"REMARK"})
           \/ PyInt(d[i].ids[1]) # CountNamed(d, {"HET"})
           \/ PyInt(d[i].ids[7]) # CountNamed(d, {"TER"})

\* C17: when the MASTER record of the parsed document declares another
\* count than the document holds, check_master returns without raising,
\* logs a warning, and str(entry) still succeeds.
C17_MismatchWarnsOnly ==
    (call # None /\ call[1].op = "check_master" /\ DeclaredDiffers(doc))
        => /\ call[1].exc = NoExc
           /\ call[1].log # << >>
           /\ Entry_str(entry).exc = NoExc

\* C18: a call of check_master leaves the Entry as it was, whether it
\* returns or raises: str(entry) after the call gives the outcome and the
\* text it gave before the call.
C18_CheckMasterChangesNothing ==
    [][(call = None /\ call' # None /\ call'[1].op = "check_master")
          => /\ entry' = entry
             /\ Entry_str(entry').exc = Entry_str(entry).exc
             /\ Entry_str(entry').lines = Entry_str(entry).lines]_vars

\* check_master logged a warning between two serializations: the text
\* written before the call is the text str(entry) gives after it.
C18_Witness ==
    /\ call # None /\ call[1].op = "check_master"
    /\ call[1].exc = NoExc /\ call[1].log # << >>
    /\ out # None /\ out[1].exc = NoExc
    /\ Entry_str(entry).lines = out[1].lines
    /\ \E i \in 1..Len(out[1].lines) : out[1].lines[i].name = "MASTER"

\* atom_format returned for the name and element it was called with.
Formatted ==
    call # None /\ call[1].op = "atom_format" /\ call[1].result # None

\* Position by position: the first two characters of two strings agree,
\* a missing character agreeing only with a missing one.
FirstTwoAgree(a, b) ==
    \A i \in 1..2 :
        /\ (i <= Len(a)) = (i <= Len(b))
        /\ i <= Len(a) => a[i] = b[i]

\* field holds s at its right end (left end) and blanks elsewhere.
RightIn(s, field) ==
    /\ Len(s) <= Len(field)
    /\ \A i \in 1..Len(field) :
          field[i] = IF i <= Len(field) - Len(s) THEN " "
                     ELSE s[i - (Len(field) - Len(s))]

LeftIn(s, field) ==
    /\ Len(s) <= Len(field)
    /\ \A i \in 1..Len(field) :
          field[i] = IF i <= Len(s) THEN s[i] ELSE " "

\* C19 as stated: a 4-character name is returned verbatim; a name whose
\* first two characters equal those of the element is returned
\* right-justified in columns 1-2 followed by 2 spaces; any other name is
\* returned after one space, left-justified in columns 2-4.
C19_AtomNameLayout ==
    Formatted =>
        LET name == call[1].name
            element == call[1].element
            result == call[1].result[1]
        IN  IF Len(name) = 4 THEN result = name
            ELSE IF FirstTwoAgree(name, element)
            THEN /\ Len(result) = 4
                 /\ RightIn(name, SubSeq(result, 1, 2))
                 /\ result[3] = " " /\ result[4] = " "
            ELSE /\ Len(result) = 4
                 /\ result[1] = " "
                 /\ LeftIn(name, SubSeq(result, 2, 4))

\* C19, amended: as stated for names of at most 2 characters (prefix
\* agrees) and of at most 3 characters (prefix differs); a longer name
\* does not fit the field, and the result is the first 4 characters of
\* the name followed by 2 spaces, or of one space followed by the name.
C19_AtomNameLayoutCut ==
    Formatted =>
        LET name == call[1].name
            element == call[1].element
            result == call[1].result[1]
        IN  IF Len(name) = 4 THEN result = name
            ELSE /\ Len(result) = 4
                 /\ IF FirstTwoAgree(name, element)
                    THEN IF Len(name) <= 2
                         THEN /\ RightIn(name, SubSeq(result, 1, 2))
                              /\ result[3] = " " /\ result[4] = " "
                         ELSE \A i \in 1..4 :
                                  result[i] = IF i <= Len(name)
                                              THEN name[i] ELSE " "
                    ELSE /\ result[1] = " "
                         /\ \A i \in 2..4 :
                               result[i] = IF i - 1 <= Len(name)
                                           THEN name[i - 1] ELSE " "

\* A 3-character name whose first two characters are the element symbol
\* was written from column 1 on, followed by one space.
C19_Witness ==
    /\ Formatted
    /\ call[1].name = << "C", "A", "a" >>
    /\ call[1].element = << "C", "A" >>
    /\ call[1].result[1] = << "C", "A", "a", " " >>

\* date_parse returned or raised for the string it was called with.
DateParsed ==
    call # None /\ call[1].op = "date_parse" /\ call[1].exc # "pending"

UpperMonths ==
    { << "J", "A", "N" >>, << "F", "E", "B" >>, << "M", "A", "R" >>,
      << "A", "P", "R" >>, << "M", "A", "Y" >>, << "J", "U", "N" >>,
      << "J", "U", "L" >>, << "A", "U", "G" >>, << "S", "E", "P" >>,
      << "O", "C", "T" >>, << "N", "O", "V" >>, << "D", "E", "C" >> }

\* Every way of writing a month abbreviation in upper and lower case.
AnyCaseMonths ==
    { tok \in [1..3 -> {UpperCase[i] : i \in 1..26}
                       \cup {LowerCase[i] : i \in 1..26}] :
        \E m \in UpperMonths :
            \A i \in 1..3 :
                \E k \in 1..26 : /\ UpperCase[k] = m[i]
                                 /\ tok[i] \in {UpperCase[k], LowerCase[k]} }

\* cs, from position from on, is: hyphen, a month of the set, hyphen, two
\* digits, and nothing more.
MonthAndYearAt(cs, from, months) ==
    /\ Len(cs) = from + 6
    /\ cs[from] = "-"
    /\ SubSeq(cs, from + 1, from + 3) \in months
    /\ cs[from + 4] = "-"
    /\ IsDigit(cs[from + 5]) /\ IsDigit(cs[from + 6])

\* DD-MMM-YY: two digits, an upper-case month abbreviation, two digits.
IsDDMMMYY(cs) ==
    /\ Len(cs) = 9
    /\ IsDigit(cs[1]) /\ IsDigit(cs[2])
    /\ MonthAndYearAt(cs, 3, UpperMonths)

\* As IsDDMMMYY, but the month abbreviation is written in any letter case
\* and the day with two digits, with one digit, or with a blank and one
\* digit.
IsDayMonthYear(cs) ==
    \/ /\ Len(cs) = 9
       /\ cs[1] = " " \/ IsDigit(cs[1])
       /\ IsDigit(cs[2])
       /\ MonthAndYearAt(cs, 3, AnyCaseMonths)
    \/ /\ Len(cs) = 8
       /\ IsDigit(cs[1])
       /\ MonthAndYearAt(cs, 2, AnyCaseMonths)

\* C20 as stated: date_parse raises for every string that is not of the
\* form DD-MMM-YY with a known upper-case month abbreviation.
C20_DeviationFails ==
    (DateParsed /\ ~IsDDMMMYY(call[1].date_string))
        => (call[1].exc # NoExc /\ call[1].date = None)

\* C20, amended: date_parse raises for every string that is not of that
\* form once the month abbreviation may be written in any letter case and
\* the day with one digit or with a leading blank.
C20_DeviationFailsAnyCase ==
    (DateParsed /\ ~IsDayMonthYear(call[1].date_string))
        => (call[1].exc # NoExc /\ call[1].date = None)

\* date_parse raised for a date whose year is written with four digits.
C20_Witness ==
    /\ DateParsed
    /\ call[1].date_string
         = << "0", "8", "-", "M", "A", "R", "-", "2", "0", "0", "7" >>
    /\ call[1].exc = DateError

\* The records that hold an ordered list of ID codes, and where the Entry
\* keeps them.
IdCodeNames == {"OBSLTE", "SPRSDE", "SPLIT"}

\* The ID codes a record of that name holds, blank slots left out.
HeldCodes(name, e) ==
    CASE name = "OBSLTE" -> NonBlank(e._obsolete[1].replace_id_codes)
      [] name = "SPRSDE" -> NonBlank(e._supersedes[1].super_id_codes)
      [] name = "SPLIT" -> NonBlank(e._split[1].id_codes)

\* The ID codes of the lines of that name, in the order of the lines.
RECURSIVE LineCodes(_, _)
LineCodes(name, d) ==
    IF d = << >> THEN << >>
    ELSE (IF Head(d).name = name THEN NonBlank(Head(d).ids) ELSE << >>)
         \o LineCodes(name, Tail(d))

\* C21: once an OBSLTE, SPRSDE or SPLIT record has parsed two or more
\* lines, its list holds the ID codes of all of them in input order.
C21_AllCodesInOrder ==
    status # "raised" =>
        \A name \in IdCodeNames :
            CountNamed(doc, {name}) >= 2
                => HeldCodes(name, entry) = LineCodes(name, doc)

\* C22: no line of the text of str(entry) holds a field written from the
\* fill value that pads the last chunk of a list.
C22_NoSentinelText ==
    out # None =>
        \A i \in 1..Len(out[1].lines) :
            /\ out[1].lines[i].text # FillValue
            /\ \A j \in 1..Len(out[1].lines[i].ids) :
                   out[1].lines[i].ids[j] # FillValue

\* The OBSLTE, SPLIT and REVDAT formatters each wrote a line from a
\* chunk that the fill value pads.
C22_Witness ==
    /\ out # None /\ out[1].exc = NoExc
    /\ entry._obsolete # None
    /\ Len(entry._obsolete[1].replace_id_codes) % 8 # 0
    /\ entry._split # None /\ Len(entry._split[1].id_codes) % 14 # 0
    /\ entry._revision_data # None
    /\ \E i \in 1..Len(out[1].lines) : out[1].lines[i].name = "OBSLTE"
    /\ \E i \in 1..Len(out[1].lines) : out[1].lines[i].name = "REVDAT"

\* The detail tokens of the REVDAT lines of modification n (lines of text
\* whose numbered column reads num), in the order of the lines.
RECURSIVE RevdatTokens(_, _)
RevdatTokens(num, d) ==
    IF d = << >> THEN << >>
    ELSE (IF Head(d).name = "REVDAT" /\ Head(d).num = num
          THEN NonBlank(Head(d).ids) ELSE << >>)
         \o RevdatTokens(num, Tail(d))

\* The modification numbers of the REVDAT lines of a document.
RevdatNumbers(d) ==
    { PyInt(d[i].num) : i \in { j \in 1..Len(d) : d[j].name = "REVDAT" } }

\* C23: the REVDAT lines of one modification number are held by one
\* entry under that number, with their detail tokens in input order, and
\* str(entry) writes them in that order, at most 4 on a line.
C23_OneEntryPerModification ==
    (status # "raised" /\ entry._revision_data # None) =>
        LET revisions == entry._revision_data[1].revisions
        IN  /\ \A i, j \in 1..Len(revisions) :
                   revisions[i].key = revisions[j].key => i = j
            /\ { revisions[i].key : i \in 1..Len(revisions) }
                   = RevdatNumbers(doc)
            /\ \A i \in 1..Len(revisions) :
                   /\ revisions[i].val.records
                        = RevdatTokens(FmtR3(revisions[i].key), doc)
                   /\ out # None =>
                        /\ RevdatTokens(FmtR3(revisions[i].key),
                                        out[1].lines)
                             = revisions[i].val.records
                        /\ \A k \in 1..Len(out[1].lines) :
                               out[1].lines[k].name = "REVDAT"
                                   => Len(out[1].lines[k].ids) <= 4

\* Modification 1 was parsed from two lines with five detail tokens and
\* written on two lines, after a line of modification 2 came between.
C23_Witness ==
    /\ out # None /\ out[1].exc = NoExc
    /\ Len(doc) = 3
    /\ doc[1].name = "REVDAT" /\ doc[1].num = "  1"
    /\ doc[2].name = "REVDAT" /\ doc[2].num = "  2"
    /\ doc[3].name = "REVDAT" /\ doc[3].num = "  1"
    /\ Len(RevdatTokens("  1", doc)) = 5
    /\ CountNamed(out[1].lines, {"REVDAT"}) = 3

\* The number of residue names the SITE lines of a site list.
RECURSIVE ListedResidues(_, _)
ListedResidues(site_id, d) ==
    IF d = << >> THEN 0
    ELSE (IF Head(d).name = "SITE" /\ Head(d).text = site_id
          THEN Len(NonBlank(Head(d).ids)) ELSE 0)
         + ListedResidues(site_id, Tail(d))

\* C24: after parse_file returned, the num_res stored for a site equals
\* the number of residues the SITE lines of that site list in the
\* document.
C24_NumResIsCount ==
    status = "returned" =>
        \A i \in 1..Len(entry.site) :
            entry.site[i].num_res
                = Some(ListedResidues(entry.site[i].site_id[1], doc))

\* The fragments an AUTHOR or CAVEAT record has accumulated, and the lines
\* its __str__ writes.
Fragments(name, r) == IF name = "AUTHOR" THEN r.author_list ELSE r.comment

RecordText(name, r) == IF name = "AUTHOR" THEN Author_str(r) ELSE Caveat_str(r)

\* C25: an AUTHOR or CAVEAT record the Entry holds with no accumulated
\* fragment formats as exactly one line: its record name with blank
\* fields.
C25_NoFragmentsOneBlankLine ==
    \A name \in {"AUTHOR", "CAVEAT"} :
        LET slot == entry[AccumulatorSlot(name)]
        IN  (slot # None /\ Fragments(name, slot[1]) = << >>) =>
                RecordText(name, slot[1]) = << BlankLine(name) >>

\* The lists the Entry keeps the records of the three transform families in.
TransformSlots == {"_orig_transform", "_frac_transform", "_noncrystal_transform"}

\* C26: while no error was raised, the record at position n of the list of
\* a transform family is the one built from the line whose record name
\* ends in the digit n.
C26_SlotIsTrailingDigit ==
    status # "raised" =>
        \A f \in TransformSlots :
            \A n \in 1..Len(entry[f]) :
                /\ entry[f][n].n = n
                /\ TransformIndex(entry[f][n].original_text[1].name) = n

\* C27: while no error was raised, the original_text of each accumulating
\* record the Entry holds is exactly the lines of its type parsed so far,
\* in parse order.
C27_OriginalTextKept ==
    status # "raised" =>
        \A name \in AccumulatorNames :
            LET slot == entry[AccumulatorSlot(name)]
            IN  LinesNamed(doc, name) # << >> =>
                    /\ slot # None
                    /\ slot[1].original_text = LinesNamed(doc, name)

\* The same for every accumulating record type except SPLIT.
C27_OriginalTextKeptButSplit ==
    status # "raised" =>
        \A name \in AccumulatorNames \ {"SPLIT"} :
            LET slot == entry[AccumulatorSlot(name)]
            IN  LinesNamed(doc, name) # << >> =>
                    /\ slot # None
                    /\ slot[1].original_text = LinesNamed(doc, name)

\* C28: a call of check_master on the Entry of a parse_file that returned
\* completes without raising, whatever the document held.
C28_CheckMasterNeverRaises ==
    (call # None /\ call[1].op = "check_master") => call[1].exc = NoExc

\* The record name the lines of a record type are written under: a Split
\* record writes its lines under SITE.
OutputName(name) == IF name = "SPLIT" THEN "SITE" ELSE name

\* C29: every line of the serialized text is the closing END line or is
\* written under the name of a record type that occurred in the parsed
\* document; the text of an Entry nothing was parsed into is the single
\* line END.
C29_AbsentTypesWriteNothing ==
    (out # None /\ out[1].exc = NoExc) =>
        /\ \A i \in 1..Len(out[1].lines) :
               \/ out[1].lines[i] = BlankLine("END")
               \/ \E j \in 1..Len(doc) :
                      out[1].lines[i].name = OutputName(doc[j].name)
        /\ doc = << >> => out[1].lines = << BlankLine("END") >>

\* The same for documents that hold an AUTHOR line.
C29_AbsentTypesWriteNothingWithAuthor ==
    (out # None /\ out[1].exc = NoExc /\ CountNamed(doc, {"AUTHOR"}) > 0) =>
        \A i \in 1..Len(out[1].lines) :
            \/ out[1].lines[i] = BlankLine("END")
            \/ \E j \in 1..Len(doc) :
                   out[1].lines[i].name = OutputName(doc[j].name)

\* C30: in a tolerant read_file, a line of a type other than ATOM and
\* HETATM never makes read_file raise: a line of a type already in the
\* error list is skipped, a line that fails to parse puts its type at the
\* end of the error list and adds no object, and any other line adds its
\* object at the end of the list of parsed objects.
C30_TolerantSkipsFailedType ==
    [][(/\ LineTaken
        /\ call'[1].op = "read_file" /\ call'[1].tolerant
        /\ doc'[Len(doc')].name \notin {"ATOM", "HETATM"})
          => LET line == doc'[Len(doc')]
                 before == IF call = None THEN read_file_init(TRUE)
                           ELSE call[1]
                 after == call'[1]
             IN  /\ after.exc = NoExc
                 /\ IF InList(line.name, before.errlist)
                    THEN after = before
                    ELSE IF LineParse(line).exc # NoExc
                    THEN /\ after.errlist = Append(before.errlist, line.name)
                         /\ after.pdblist = before.pdblist
                    ELSE /\ after.pdblist
                              = Append(before.pdblist, LineParse(line).rec)
                         /\ after.errlist = before.errlist]_vars

\* The same for lines that parse or fail with a KeyError or a ValueError.
C30_TolerantSkipsCaughtType ==
    [][(/\ LineTaken
        /\ call'[1].op = "read_file" /\ call'[1].tolerant
        /\ doc'[Len(doc')].name \notin {"ATOM", "HETATM"}
        /\ \/ LineParse(doc'[Len(doc')]).exc = NoExc
           \/ Caught(LineParse(doc'[Len(doc')]).exc))
          => LET line == doc'[Len(doc')]
                 before == IF call = None THEN read_file_init(TRUE)
                           ELSE call[1]
                 after == call'[1]
             IN  /\ after.exc = NoExc
                 /\ IF InList(line.name, before.errlist)
                    THEN after = before
                    ELSE IF LineParse(line).exc # NoExc
                    THEN /\ after.errlist = Append(before.errlist, line.name)
                         /\ after.pdblist = before.pdblist
                    ELSE /\ after.pdblist
                              = Append(before.pdblist, LineParse(line).rec)
                         /\ after.errlist = before.errlist]_vars

====
